---- MODULE Spec2Model ----
(***************************************************************************)
(* Model of the PO extraction and reconciliation logic of the logistics    *)
(* pages: comparation_tool.py, burnard_shipment_check.py and               *)
(* eta_discrepancy.py.  Texts are sequences of one-character strings, so   *)
(* that the regular expressions of the source act on characters.           *)
(***************************************************************************)
EXTENDS Integers, Sequences, FiniteSets, TLC

\* ------------------------------------------------------------------ bounds
\* Largest number of tokens concatenated into one 'All References' text.
MaxTokens == 3
\* Largest number of tokens concatenated into one 'BC PO' text.
MaxCellTokens == 4
\* Largest number of rows of Excel A of the comparison tool, and of Excel B.
MaxRowsA == 2
MaxRowsB == 1
\* Largest number of rows of Excel A of the Burnard check.
MaxOrdersA == 2
\* Largest number of rows of the import workbook of the ETA page, all sheets.
MaxImportRows == 2
\* Largest number of sheets of an import document in the sheet selection.
MaxSheetNames == 3

\* ------------------------------------------------------------ characters
DigitChars == <<"0", "1", "2", "3", "4", "5", "6", "7", "8", "9">>

Letters ==
  {"A", "B", "C", "D", "E", "F", "G", "H", "I", "J", "K", "L", "M", "N", "O",
   "P", "Q", "R", "S", "T", "U", "V", "W", "X", "Y", "Z",
   "a", "b", "c", "d", "e", "f", "g", "h", "i", "j", "k", "l", "m", "n", "o",
   "p", "q", "r", "s", "t", "u", "v", "w", "x", "y", "z"}

\* \d
IsDigit(c) == \E d \in 1..10 : DigitChars[d] = c

\* \w
IsWordChar(c) == IsDigit(c) \/ c \in Letters \/ c = "_"

\* \s
IsSpace(c) == c = " "

\* The character at position i, or the empty string outside the text.
At(s, i) == IF i >= 1 /\ i <= Len(s) THEN s[i] ELSE ""

\* \b between positions i-1 and i.
WordBoundary(s, i) == IsWordChar(At(s, i - 1)) # IsWordChar(At(s, i))

\* \d{n} at position i.
DigitsAt(s, i, n) == \A k \in 0..(n - 1) : IsDigit(At(s, i + k))

Slice(s, i, n) == SubSeq(s, i, i + n - 1)

DigitVal(c) == CHOOSE d \in 0..9 : DigitChars[d + 1] = c

\* int(text) of a text of decimal digits.
RECURSIVE IntOf(_)
IntOf(s) ==
  IF s = <<>> THEN 0
  ELSE IntOf(SubSeq(s, 1, Len(s) - 1)) * 10 + DigitVal(s[Len(s)])

\* str(n) of a natural number: no leading zeros.
RECURSIVE StrOf(_)
StrOf(n) ==
  IF n < 10 THEN <<DigitChars[n + 1]>>
  ELSE StrOf(n \div 10) \o <<DigitChars[(n % 10) + 1]>>

\* The text of n written with w digits (test inputs such as "000123").
RECURSIVE Pad(_, _)
Pad(n, w) ==
  IF w = 0 THEN <<>> ELSE Pad(n \div 10, w - 1) \o <<DigitChars[(n % 10) + 1]>>

\* A set of positions as the ascending sequence of its elements.
RECURSIVE Ascending(_)
Ascending(S) ==
  IF S = {} THEN <<>>
  ELSE LET m == CHOOSE x \in S : \A y \in S : x <= y
       IN <<m>> \o Ascending(S \ {m})

\* re.split(r'[\/,]', s) and str.split("/"): the pieces between separators.
RECURSIVE SplitFrom(_, _, _, _)
SplitFrom(s, seps, i, piece) ==
  IF i > Len(s) THEN <<piece>>
  ELSE IF s[i] \in seps THEN <<piece>> \o SplitFrom(s, seps, i + 1, <<>>)
  ELSE SplitFrom(s, seps, i + 1, Append(piece, s[i]))

SplitOn(s, seps) == SplitFrom(s, seps, 1, <<>>)

\* re.findall(r"\b\d{6}\b", s): the matches cannot overlap, each is a run of
\* six digits between two non-word characters.
SixDigitStarts(s) ==
  {i \in 1..Len(s) :
     WordBoundary(s, i) /\ DigitsAt(s, i, 6) /\ WordBoundary(s, i + 6)}

FindAllSixDigit(s) ==
  LET pos == Ascending(SixDigitStarts(s))
  IN [k \in 1..Len(pos) |-> Slice(s, pos[k], 6)]

\* ------------------------------------- comparation_tool.extract_po_numbers
\* PO\s? : position of the first digit after "PO" at i (0: no "PO" at i).
AfterPOSpace(s, i) ==
  IF At(s, i) = "P" /\ At(s, i + 1) = "O"
  THEN IF IsSpace(At(s, i + 2)) THEN i + 3 ELSE i + 2
  ELSE 0

\* PO\s?(\d{6})-(\d{2}) matched at position i.
RangeMatchAt(s, i) ==
  LET j == AfterPOSpace(s, i)
  IN j > 0 /\ DigitsAt(s, j, 6) /\ At(s, j + 6) = "-" /\ DigitsAt(s, j + 7, 2)

\* The numbers one range match adds (source lines 33-37).
RangeNumbers(s, i) ==
  LET j == AfterPOSpace(s, i)
      base == IntOf(Slice(s, j, 6))
      end == IntOf(Slice(s, j + 7, 2))
      start_last_two == base % 100
  IN {StrOf(base - start_last_two + n) : n \in start_last_two..end}

\* re.finditer over the range pattern: leftmost matches, scanning on after
\* the end of each match.
RECURSIVE RangeScan(_, _)
RangeScan(s, i) ==
  IF i > Len(s) THEN {}
  ELSE IF RangeMatchAt(s, i)
       THEN RangeNumbers(s, i) \cup RangeScan(s, AfterPOSpace(s, i) + 9)
       ELSE RangeScan(s, i + 1)

\* PO[.\s]?\s?(\d{6}) at position i: the position of group 1, or 0.
PODigitsAt(s, i) ==
  IF ~(At(s, i) = "P" /\ At(s, i + 1) = "O") THEN 0
  ELSE IF (At(s, i + 2) = "." \/ IsSpace(At(s, i + 2)))
          /\ IsSpace(At(s, i + 3)) /\ DigitsAt(s, i + 4, 6) THEN i + 4
  ELSE IF (At(s, i + 2) = "." \/ IsSpace(At(s, i + 2)))
          /\ DigitsAt(s, i + 3, 6) THEN i + 3
  ELSE IF DigitsAt(s, i + 2, 6) THEN i + 2
  ELSE 0

\* re.search(r'PO[.\s]?\s?(\d{6})', group): group 1 of the leftmost match.
SearchPO(s) ==
  LET starts == {i \in 1..Len(s) : PODigitsAt(s, i) > 0}
  IN IF starts = {} THEN {}
     ELSE LET i == CHOOSE x \in starts : \A y \in starts : x <= y
          IN {Slice(s, PODigitsAt(s, i), 6)}

\* The numbers one slash- or comma-separated group adds (lines 40-46).
GroupNumbers(group) ==
  SearchPO(group) \cup {FindAllSixDigit(group)[k] : k \in 1..Len(FindAllSixDigit(group))}

\* PO[.\s]?\s?(\d{6})-\w+ matched at position i.
SuffixMatchAt(s, i) ==
  LET j == PODigitsAt(s, i)
  IN j > 0 /\ At(s, j + 6) = "-" /\ IsWordChar(At(s, j + 7))

\* The end of the greedy \w+ that starts at position i.
RECURSIVE WordEnd(_, _)
WordEnd(s, i) == IF IsWordChar(At(s, i)) THEN WordEnd(s, i + 1) ELSE i

RECURSIVE SuffixScan(_, _)
SuffixScan(s, i) ==
  IF i > Len(s) THEN {}
  ELSE IF SuffixMatchAt(s, i)
       THEN {Slice(s, PODigitsAt(s, i), 6)}
            \cup SuffixScan(s, WordEnd(s, PODigitsAt(s, i) + 7))
       ELSE SuffixScan(s, i + 1)

\* A spreadsheet cell as pandas hands it over: a str ("str"), a number
\* ("num") or a missing value ("nan"), with the text str(value) gives.
StrCell(t) == [kind |-> "str", text |-> t]
NumCell(t) == [kind |-> "num", text |-> t]
NanCell == [kind |-> "nan", text |-> <<"n", "a", "n">>]
NoneCell == [kind |-> "none", text |-> <<"N", "o", "n", "e">>]

\* The whole function, as the set it returns as a list.
extract_po_numbers(ref_str) ==
  IF ref_str.kind # "str" THEN {}
  ELSE LET groups == SplitOn(ref_str.text, {"/", ","})
       IN RangeScan(ref_str.text, 1)
          \cup UNION {GroupNumbers(groups[g]) : g \in 1..Len(groups)}
          \cup SuffixScan(ref_str.text, 1)

\* ---------------------------------------- eta_discrepancy.split_bc_po_value
\* The first ")" at or after position i (0: none).
RECURSIVE NextClose(_, _)
NextClose(s, i) ==
  IF i > Len(s) THEN 0 ELSE IF s[i] = ")" THEN i ELSE NextClose(s, i + 1)

\* re.sub(r"\([^)]*\)", "", text): from the left, each "(" that has a ")"
\* after it is removed together with everything up to the first such ")".
RECURSIVE StripParens(_, _)
StripParens(s, i) ==
  IF i > Len(s) THEN <<>>
  ELSE IF s[i] = "(" /\ NextClose(s, i + 1) > 0
       THEN StripParens(s, NextClose(s, i + 1) + 1)
       ELSE <<s[i]>> \o StripParens(s, i + 1)

\* str.strip()
RECURSIVE Strip(_)
Strip(s) ==
  IF s = <<>> THEN s
  ELSE IF IsSpace(s[1]) THEN Strip(Tail(s))
  ELSE IF IsSpace(s[Len(s)]) THEN Strip(SubSeq(s, 1, Len(s) - 1))
  ELSE s

\* Reversed form of the search below: the last match instead of the first.
RECURSIVE SearchSixDigitLast(_, _)
SearchSixDigitLast(s, i) ==
  IF i > Len(s) THEN <<>>
  ELSE LET later == SearchSixDigitLast(s, i + 1)
       IN IF later # <<>> THEN later
          ELSE IF WordBoundary(s, i) /\ DigitsAt(s, i, 6) /\ WordBoundary(s, i + 6)
               THEN <<Slice(s, i, 6)>>
               ELSE <<>>

\* re.search(r"\b(\d{6})\b", s) from position i: <<group 1>> of the leftmost
\* match, or <<>>.
RECURSIVE SearchSixDigit(_, _)
SearchSixDigit(s, i) ==
  IF i > Len(s) THEN <<>>
  ELSE IF WordBoundary(s, i) /\ DigitsAt(s, i, 6) /\ WordBoundary(s, i + 6)
       THEN <<Slice(s, i, 6)>>
       ELSE SearchSixDigit(s, i + 1)

\* parts = [p.strip() for p in cleaned.split("/") if p.strip()]
RECURSIVE StrippedParts(_)
StrippedParts(pieces) ==
  IF pieces = <<>> THEN <<>>
  ELSE IF Strip(Head(pieces)) = <<>> THEN StrippedParts(Tail(pieces))
  ELSE <<Strip(Head(pieces))>> \o StrippedParts(Tail(pieces))

\* The loop over the parts: one PO appended for each part that has a match.
RECURSIVE PartsResult(_)
PartsResult(parts) ==
  IF parts = <<>> THEN <<>>
  ELSE SearchSixDigit(Head(parts), 1) \o PartsResult(Tail(parts))

HasSlash(s) == \E i \in 1..Len(s) : s[i] = "/"

split_bc_po_value(value) ==
  IF value.kind = "none" THEN <<>>
  ELSE LET cleaned_text == StripParens(value.text, 1)
       IN IF HasSlash(cleaned_text)
          THEN PartsResult(StrippedParts(SplitOn(cleaned_text, {"/"})))
          ELSE SearchSixDigit(cleaned_text, 1)

\* ------------------------------------------------------- date cell values
\* A date cell as pandas hands it over.  kind: "nan" (missing: NaN, NaT),
\* "ts" (a datetime), "str" (a text), "empty" (the text ""), "num" (a
\* number).  ok: pd.to_datetime parses the value; day and tod are then the
\* calendar day and the time of day it gives.
NanVal == [kind |-> "nan", ok |-> FALSE, day |-> 0, tod |-> 0]
TsVal(d, t) == [kind |-> "ts", ok |-> TRUE, day |-> d, tod |-> t]
StrVal(d, t) == [kind |-> "str", ok |-> TRUE, day |-> d, tod |-> t]
BadStrVal == [kind |-> "str", ok |-> FALSE, day |-> 0, tod |-> 0]
EmptyVal == [kind |-> "empty", ok |-> FALSE, day |-> 0, tod |-> 0]
\* A number is read as nanoseconds after 1970-01-01 00:00.
NumVal == [kind |-> "num", ok |-> TRUE, day |-> 0, tod |-> 1]

\* pd.isna(val), pd.isnull(val)
IsNa(val) == val.kind = "nan"

\* A pandas timestamp, or NaT.
NaT == [nat |-> TRUE, day |-> 0, tod |-> 0]
Timestamp(d, t) == [nat |-> FALSE, day |-> d, tod |-> t]

\* pd.to_datetime(val) raises for a text it cannot parse.
ToDatetimeRaises(val) == val.kind = "str" /\ ~val.ok

\* pd.to_datetime(val) where it does not raise; with errors="coerce" also
\* where it would.
to_datetime(val) ==
  IF val.kind \in {"nan", "empty"} \/ ~val.ok THEN NaT
  ELSE Timestamp(val.day, val.tod)

\* Timestamp.date(), .dt.date: the calendar day, the time of day dropped.
DateOf(ts) == IF ts.nat THEN NaT ELSE Timestamp(ts.day, 0)

\* ------------------------------------------------ comparation_tool (page)
\* Mutated form of is_valid_date: every value passes.
is_valid_date_any(val) == TRUE

\* is_valid_date (lines 52-61)
is_valid_date(val) ==
  IF IsNa(val) THEN FALSE
  ELSE IF val.kind = "ts" THEN TRUE
  ELSE ~ToDatetimeRaises(val)

\* The indices 1..n, in order, for which Keep holds (a boolean mask).
FilterIdx(n, Keep(_)) == Ascending({i \in 1..n : Keep(i)})

\* A set of PO texts as a list, by number.
RECURSIVE POList(_)
POList(S) ==
  IF S = {} THEN <<>>
  ELSE LET m == CHOOSE x \in S : \A y \in S : IntOf(x) <= IntOf(y)
       IN <<m>> \o POList(S \ {m})

\* Mutated form of Explode: one row for each mention of a six-digit number
\* in the cell, repeated mentions included.
RECURSIVE ExplodeMentions(_, _)
ExplodeMentions(sheet, idxs) ==
  IF idxs = <<>> THEN <<>>
  ELSE LET pos == FindAllSixDigit(sheet[Head(idxs)].refs.text)
       IN [k \in 1..Len(pos) |-> [idx |-> Head(idxs), po |-> pos[k]]]
          \o ExplodeMentions(sheet, Tail(idxs))

\* df_a.explode('Extracted PO') without the rows that have no PO: one row
\* for each retained row and each PO extracted from it.
RECURSIVE Explode(_, _)
Explode(sheet, idxs) ==
  IF idxs = <<>> THEN <<>>
  ELSE LET pos == POList(extract_po_numbers(sheet[Head(idxs)].refs))
       IN [k \in 1..Len(pos) |-> [idx |-> Head(idxs), po |-> pos[k]]]
          \o Explode(sheet, Tail(idxs))

\* value_counts() of the 'Extracted PO' column.
ValueCount(expanded, po) == Cardinality({k \in 1..Len(expanded) : expanded[k].po = po})

\* The rows of a list that satisfy Keep, in order.
FilterSeq(seq, Keep(_)) ==
  LET idx == Ascending({k \in 1..Len(seq) : Keep(seq[k])})
  IN [j \in 1..Len(idx) |-> seq[idx[j]]]

\* ------------------------------------------- burnard_shipment_check (page)
\* extract_po_numbers of burnard_shipment_check.py (lines 23-26): every
\* six-digit number of str(order_value), in text order.
burnard_extract_po_numbers(order_value) ==
  IF order_value.kind = "nan" THEN <<>> ELSE FindAllSixDigit(order_value.text)

\* A calendar date, or None.
NoDate == [has |-> FALSE, day |-> 0, tod |-> 0]
Date(d) == [has |-> TRUE, day |-> d, tod |-> 0]

\* Mutated form of normalize_eta: the time of day is kept.
normalize_eta_with_time(val) ==
  IF IsNa(val) \/ val.kind = "empty" THEN NoDate
  ELSE IF ToDatetimeRaises(val) THEN NoDate
  ELSE [has |-> TRUE, day |-> to_datetime(val).day, tod |-> to_datetime(val).tod]

\* normalize_eta (lines 29-36)
normalize_eta(val) ==
  IF IsNa(val) \/ val.kind = "empty" THEN NoDate
  ELSE IF ToDatetimeRaises(val) THEN NoDate
  ELSE Date(DateOf(to_datetime(val)).day)

\* Container type texts.
T40RE == <<"4", "0", "R", "E">>
T40REHC == <<"4", "0", "R", "E", "H", "C">>
T40HC == <<"4", "0", "H", "C">>
T40HCR == <<"4", "0", "H", "C", "R">>
T40HCRV == <<"4", "0", "H", "C", "R", "V">>
T20GP == <<"2", "0", "G", "P">>
T20RE == <<"2", "0", "R", "E">>
T20RF == <<"2", "0", "R", "F">>
T20FR == <<"2", "0", "F", "R">>
T45HC == <<"4", "5", "H", "C">>

\* type_mappings (lines 114-126), in the order of the dict.
type_mappings ==
  <<<<T40RE, T40RE>>, <<T40REHC, T40RE>>, <<T40HC, T40HC>>, <<T40HCR, T40HC>>,
    <<T40HCRV, T40HC>>, <<T20GP, T20GP>>, <<T20RE, T20RE>>, <<T20RF, T20RF>>,
    <<T20FR, T20FR>>, <<T45HC, T45HC>>>>

\* a in b, for texts.
Contains(a, b) ==
  \E i \in 1..(Len(b) - Len(a) + 1) : SubSeq(b, i, i + Len(a) - 1) = a

\* normalize_container_type (lines 106-138) of an upper-cased type.
normalize_container_type(container_type) ==
  IF container_type = <<>> THEN <<>>
  ELSE LET exact == {k \in 1..Len(type_mappings) : type_mappings[k][1] = container_type}
           incl == {k \in 1..Len(type_mappings) : Contains(type_mappings[k][1], container_type)}
       IN IF exact # {} THEN type_mappings[CHOOSE k \in exact : TRUE][2]
          ELSE IF incl # {}
               THEN type_mappings[CHOOSE k \in incl : \A j \in incl : k <= j][2]
               ELSE container_type

\* A 'Container' cell by what the patterns of lines 76 and 93 find in it:
\* kind "nan" (missing), "empty" (the text ""), "num" (a container number, and the type text
\* after it, upper-cased), "type" (no number; a type of two characters or
\* more) or "other" (neither); raw is the stripped text of the cell.
NanContainer == [kind |-> "nan", number |-> "", ctype |-> <<>>, raw |-> ""]
EmptyContainer == [kind |-> "empty", number |-> "", ctype |-> <<>>, raw |-> ""]
NumContainer(n, t, r) == [kind |-> "num", number |-> n, ctype |-> t, raw |-> r]
TypeContainer(t, r) == [kind |-> "type", number |-> "", ctype |-> t, raw |-> r]
OtherContainer(r) == [kind |-> "other", number |-> "", ctype |-> <<>>, raw |-> r]

\* normalize_container_comparison (lines 68-104); display is the text
\* "number(type)", "number", "(type)" or the cell itself, kept in parts.
normalize_container_comparison(container_value) ==
  IF container_value.kind \in {"nan", "empty"}
  THEN [number |-> "", type |-> <<>>, display |-> <<"", <<>>, "">>]
  ELSE IF container_value.kind = "num"
  THEN LET t == normalize_container_type(container_value.ctype)
       IN [number |-> container_value.number, type |-> t,
           display |-> <<container_value.number, t, "">>]
  ELSE IF container_value.kind = "type"
  THEN LET t == normalize_container_type(container_value.ctype)
       IN [number |-> "", type |-> t,
           display |-> IF t # <<>> THEN <<"", t, "">> ELSE <<"", <<>>, container_value.raw>>]
  ELSE [number |-> "", type |-> <<>>, display |-> <<"", <<>>, container_value.raw>>]

\* are_containers_equal (lines 140-161)
are_containers_equal(container_a, container_b) ==
  LET norm_a == normalize_container_comparison(container_a)
      norm_b == normalize_container_comparison(container_b)
  IN IF norm_a.number # "" /\ norm_b.number # "" /\ norm_a.number # norm_b.number
     THEN FALSE
     ELSE IF norm_a.type # <<>> /\ norm_b.type # <<>>
     THEN \/ norm_a.type = norm_b.type
          \/ Contains(norm_a.type, norm_b.type)
          \/ Contains(norm_b.type, norm_a.type)
     ELSE norm_a.display = norm_b.display

\* compare_rows, the loop over columns_to_compare = ["ETA", "Container"]
\* (lines 178-217): the columns that get an entry in differences.
RowDifferences(row_a, row_b) ==
  (IF normalize_eta(row_a.eta) # normalize_eta(row_b.eta) THEN {"ETA"} ELSE {})
  \cup (IF ~are_containers_equal(row_a.container, row_b.container)
        THEN {"Container"} ELSE {})

\* compare_rows, the rules applied to differences (lines 219-240).
FilterDifferences(diffs) ==
  LET has_eta_diff == "ETA" \in diffs
      has_container_diff == "Container" \in diffs
  IN IF has_eta_diff /\ ~has_container_diff THEN {"ETA"}
     ELSE IF has_container_diff /\ ~has_eta_diff THEN {"Container"}
     ELSE IF has_eta_diff /\ has_container_diff THEN {"ETA", "Container"}
     ELSE {}

compare_rows(row_a, row_b) == FilterDifferences(RowDifferences(row_a, row_b))

\* Mutated form of MapPut: a list that takes every pair, not a dict.
MapAppend(map, po, row) == Append(map, [po |-> po, row |-> row])

\* po_map_a[po] = row: a dict in insertion order; a key already there keeps
\* its place and takes the new row.
MapPut(map, po, row) ==
  IF \E k \in 1..Len(map) : map[k].po = po
  THEN [k \in 1..Len(map) |-> IF map[k].po = po THEN [po |-> po, row |-> row] ELSE map[k]]
  ELSE Append(map, [po |-> po, row |-> row])

\* The inner loop of lines 344-345 over the POs of one row.
RECURSIVE MapPutAll(_, _, _)
MapPutAll(map, po_list, row) ==
  IF po_list = <<>> THEN map
  ELSE MapPutAll(MapPut(map, Head(po_list), row), Tail(po_list), row)

\* The loop of lines 342-345 over the rows of df_a_clean.
RECURSIVE BuildPoMap(_, _, _)
BuildPoMap(map, sheet, idxs) ==
  IF idxs = <<>> THEN map
  ELSE BuildPoMap(
         MapPutAll(map, burnard_extract_po_numbers(sheet[Head(idxs)].order), Head(idxs)),
         sheet, Tail(idxs))

\* df_b_final[df_b_final["BC PO"].astype(str).str.contains(po)]: the rows
\* of Excel B whose 'BC PO' text contains po.
MatchRowsB(sheet, po) ==
  Ascending({k \in 1..Len(sheet) : Contains(po, sheet[k].bc_po.text)})

\* ------------------------------------------------- eta_discrepancy (page)
\* extract_six_digit_po_from_bc_no (lines 38-43):
\* re.search(r"\bPO(\d{6})\b", str(value).strip(), flags=re.IGNORECASE),
\* <<group 1>> or <<>> for None.
RECURSIVE SearchBcNo(_, _)
SearchBcNo(s, i) ==
  IF i > Len(s) THEN <<>>
  ELSE IF /\ WordBoundary(s, i)
          /\ At(s, i) \in {"P", "p"} /\ At(s, i + 1) \in {"O", "o"}
          /\ DigitsAt(s, i + 2, 6)
          /\ WordBoundary(s, i + 8)
       THEN <<Slice(s, i + 2, 6)>>
       ELSE SearchBcNo(s, i + 1)

extract_six_digit_po_from_bc_no(value) ==
  IF value.kind = "none" THEN <<>> ELSE SearchBcNo(Strip(value.text), 1)

\* Mutated form of DateOnly: the time of day is kept.
DateOnlyKeepsTime(ts) == ts

\* pd.to_datetime(x.date()), .dt.date followed by pd.to_datetime: the
\* timestamp of midnight of the same day; NaT stays NaT.
DateOnly(ts) == DateOf(ts)

\* load_bc_df (lines 103-107): one row for each row of the sheet that has a
\* PO, with the arrival date as a date; idx is the row of the sheet.
RECURSIVE LoadBcRows(_, _)
LoadBcRows(sheet, i) ==
  IF i > Len(sheet) THEN <<>>
  ELSE LET po == extract_six_digit_po_from_bc_no(sheet[i].no)
       IN (IF po = <<>> THEN <<>>
           ELSE <<[idx |-> i, PO_num |-> po[1],
                   bc_date |-> DateOnly(to_datetime(sheet[i].arrival))]>>)
          \o LoadBcRows(sheet, i + 1)

\* A sheet is used when it has rows and both columns (lines 129-141).
SheetUsable(sheet) ==
  /\ sheet.rows # <<>>
  /\ "bc po" \in sheet.columns
  /\ "estimated arrival" \in sheet.columns

\* The records one row of a sheet adds (lines 148-155).
ImportRowRecords(r, sheet_name) ==
  LET po_values == split_bc_po_value(r.bc_po)
      eta_date == DateOnly(to_datetime(r.eta))
  IN [k \in 1..Len(po_values) |->
        [PO_num |-> po_values[k], imp_date |-> eta_date, sheet |-> sheet_name]]

\* The loop over the rows of one sheet (line 147).
RECURSIVE SheetRecords(_, _)
SheetRecords(sheet_rows, sheet_name) ==
  IF sheet_rows = <<>> THEN <<>>
  ELSE ImportRowRecords(Head(sheet_rows), sheet_name)
       \o SheetRecords(Tail(sheet_rows), sheet_name)

\* Mutated form of KeepLast: the first occurrence of each PO is kept.
KeepFirst(all_rows) ==
  LET keep == {k \in 1..Len(all_rows) :
                 \A j \in 1..(k - 1) : all_rows[j].PO_num # all_rows[k].PO_num}
      idx == Ascending(keep)
  IN [j \in 1..Len(idx) |-> all_rows[idx[j]]]

\* sort_values("row_order").groupby("PO_num").tail(1) (lines 163-171): the
\* last record of each PO, in the order of the records.
KeepLast(all_rows) ==
  LET keep == {k \in 1..Len(all_rows) :
                 \A j \in (k + 1)..Len(all_rows) : all_rows[j].PO_num # all_rows[k].PO_num}
      idx == Ascending(keep)
  IN [j \in 1..Len(idx) |-> all_rows[idx[j]]]

Abs(x) == IF x < 0 THEN 0 - x ELSE x

\* (imp_date - bc_date).dt.days: the whole days of the difference, rounded
\* down; the time of day is in hours.
TimedeltaDays(later, earlier) ==
  ((later.day * 24 + later.tod) - (earlier.day * 24 + earlier.tod)) \div 24

\* bc_df.merge(imp_df, on="PO_num", how="left") and day_diff (lines
\* 181-182).  imp_df has one row for each PO.
MergeRow(bc_row, imp) ==
  LET hit == {k \in 1..Len(imp) : imp[k].PO_num = bc_row.PO_num}
      imp_date == IF hit = {} THEN NaT ELSE imp[CHOOSE k \in hit : TRUE].imp_date
      sheet == IF hit = {} THEN "" ELSE imp[CHOOSE k \in hit : TRUE].sheet
      has_diff == ~imp_date.nat /\ ~bc_row.bc_date.nat
  IN [idx |-> bc_row.idx, PO_num |-> bc_row.PO_num, bc_date |-> bc_row.bc_date,
      imp_date |-> imp_date, sheet |-> sheet, has_diff |-> has_diff,
      day_diff |-> IF has_diff THEN TimedeltaDays(imp_date, bc_row.bc_date) ELSE 0]

\* One merged row for each pair of a BC row and an import row of its PO
\* (exactly one row for each BC row when the import POs are distinct).
RECURSIVE MergeLeft(_, _)
MergeLeft(bc, imp) ==
  IF bc = <<>> THEN <<>>
  ELSE LET hits == Ascending({k \in 1..Len(imp) : imp[k].PO_num = Head(bc).PO_num})
       IN (IF hits = <<>> THEN <<MergeRow(Head(bc), <<>>)>>
           ELSE [j \in 1..Len(hits) |-> MergeRow(Head(bc), <<imp[hits[j]]>>)])
          \o MergeLeft(Tail(bc), imp)

\* The mask of lines 184-188.
IsMismatch(m, tolerance_days) ==
  ~m.bc_date.nat /\ ~m.imp_date.nat /\ m.has_diff /\ Abs(m.day_diff) > tolerance_days

\* The mask of line 190.
IsMissing(m) == m.imp_date.nat

\* [["PO_num", "bc_date"]] of line 190; idx is the row of the BC sheet.
MissingColumns(ms) ==
  [k \in 1..Len(ms) |-> [idx |-> ms[k].idx, PO_num |-> ms[k].PO_num,
                          bc_date |-> ms[k].bc_date]]

\* ----------------------------------------- pages/tri-star_shipment_check
LowerChars ==
  <<"a", "b", "c", "d", "e", "f", "g", "h", "i", "j", "k", "l", "m", "n", "o",
    "p", "q", "r", "s", "t", "u", "v", "w", "x", "y", "z">>

UpperChars ==
  <<"A", "B", "C", "D", "E", "F", "G", "H", "I", "J", "K", "L", "M", "N", "O",
    "P", "Q", "R", "S", "T", "U", "V", "W", "X", "Y", "Z">>

\* str.upper(), character by character.
UpperChar(c) ==
  IF \E i \in 1..Len(LowerChars) : LowerChars[i] = c
  THEN UpperChars[CHOOSE i \in 1..Len(LowerChars) : LowerChars[i] = c]
  ELSE c

Upper(s) == [i \in 1..Len(s) |-> UpperChar(s[i])]

\* str.replace(' ', '')
RECURSIVE RemoveSpaces(_)
RemoveSpaces(s) ==
  IF s = <<>> THEN <<>>
  ELSE IF Head(s) = " " THEN RemoveSpaces(Tail(s))
  ELSE <<Head(s)>> \o RemoveSpaces(Tail(s))

\* A value that is None, or a text.
NoText == [has |-> FALSE, text |-> <<>>]
SomeText(s) == [has |-> TRUE, text |-> s]

\* bool(x) of a normalized name: None and '' are false.
Truthy(x) == x.has /\ x.text # <<>>

\* normalize_vessel (lines 130-134), used for the vessel and the voyage.
tri_normalize_vessel(vessel_str) ==
  IF vessel_str.kind = "nan" THEN NoText
  ELSE SomeText(Strip(Upper(RemoveSpaces(vessel_str.text))))

\* extract_container_info (lines 103-121) gives a number and a type, each
\* possibly None; a container cell is held as what the two patterns find
\* in it: num and ctype are "" for None.
TriContainer(num, ctype) == [num |-> num, ctype |-> ctype]

\* The date text of lines 305-311: '%Y-%m-%d' of a parsed value, str() of
\* the cell otherwise ('N/A' for a missing ETA_Clean).
EtaStr(val) ==
  IF to_datetime(val).nat THEN [date |-> FALSE, day |-> 0]
  ELSE [date |-> TRUE, day |-> to_datetime(val).day]

\* The condition of lines 329-330.
VesselOrVoyageDiffers(row_a, row_b) ==
  LET vessel_a == tri_normalize_vessel(row_a.vessel)
      voyage_a == tri_normalize_vessel(row_a.voyage)
      vessel_b == tri_normalize_vessel(row_b.vessel)
      voyage_b == tri_normalize_vessel(row_b.voyage)
  IN \/ Truthy(vessel_a) /\ Truthy(vessel_b) /\ vessel_a # vessel_b
     \/ Truthy(voyage_a) /\ Truthy(voyage_b) /\ voyage_a # voyage_b

\* The reason of the container difference of lines 339-374, "" for none.
ContainerReason(row_a, row_b) ==
  LET num_a == row_a.container.num
      type_a == row_a.container.ctype
      num_b == row_b.container.num
      type_b == row_b.container.ctype
  IN IF num_a = "" THEN ""
     ELSE IF num_b = "" THEN "A has container number, B does not."
     ELSE IF num_a # num_b THEN "Different container numbers found."
     ELSE IF type_a # "" /\ type_b # "" /\ type_a # type_b
          THEN "Same container number, different type."
     ELSE ""

\* The row of a frame with a given PO_Clean (PO_Clean is unique in a frame).
RowOf(df, po) == df[CHOOSE k \in 1..Len(df) : df[k].PO_Clean = po]

POsOf(df) == {df[k].PO_Clean : k \in 1..Len(df)}

\* ------------------------------------------- import-doc sheet selection
\* datetime.strptime(text, "%m.%Y"): the month is '1[0-2]|0[1-9]|[1-9]',
\* the year four digits, and no text may remain.  <<year, month>>, or <<>>
\* for ValueError.
MonthYear(m, y) == IF y >= 1 THEN <<y, m>> ELSE <<>>

strptime(text) ==
  IF /\ Len(text) = 7 /\ DigitsAt(text, 1, 2) /\ text[3] = "." /\ DigitsAt(text, 4, 4)
     /\ IntOf(Slice(text, 1, 2)) \in 1..12
  THEN MonthYear(IntOf(Slice(text, 1, 2)), IntOf(Slice(text, 4, 4)))
  ELSE IF /\ Len(text) = 6 /\ IsDigit(text[1]) /\ text[1] # "0" /\ text[2] = "."
          /\ DigitsAt(text, 3, 4)
  THEN MonthYear(IntOf(Slice(text, 1, 1)), IntOf(Slice(text, 3, 4)))
  ELSE <<>>

\* re.search(r'(\d{1,2}\.\d{4})', name): the first match, <<>> for none.
RECURSIVE SearchMonthYear(_, _)
SearchMonthYear(name, i) ==
  IF i > Len(name) THEN <<>>
  ELSE IF DigitsAt(name, i, 2) /\ At(name, i + 2) = "." /\ DigitsAt(name, i + 3, 4)
       THEN Slice(name, i, 7)
  ELSE IF DigitsAt(name, i, 1) /\ At(name, i + 1) = "." /\ DigitsAt(name, i + 2, 4)
       THEN Slice(name, i, 6)
  ELSE SearchMonthYear(name, i + 1)

\* The date a page reads in a sheet name: burnard parses the name, dhl the
\* stripped name, tri-star the first match in the name.
SheetDate(page, name) ==
  IF page = "burnard" THEN strptime(name)
  ELSE IF page = "dhl" THEN strptime(Strip(name))
  ELSE strptime(SearchMonthYear(name, 1))

\* Mutated form of DateLater: the two dates compared as 'MM.YYYY' texts.
DateLaterAsText(d1, d2) ==
  d1[2] > d2[2] \/ (d1[2] = d2[2] /\ d1[1] > d2[1])

\* date_obj > latest_date of two datetimes on the first of a month.
DateLater(d1, d2) == d1[1] * 12 + d1[2] > d2[1] * 12 + d2[2]

\* max(date_sheets, key=date_sheets.get): the first entry no other entry
\* is later than.
MaxDateSheet(entries) ==
  entries[CHOOSE k \in 1..Len(entries) :
            /\ \A j \in 1..Len(entries) : ~DateLater(entries[j].date, entries[k].date)
            /\ \A j \in 1..(k - 1) : DateLater(entries[k].date, entries[j].date)]

\* ---------------------------------------- pages/burnard_shipment_check
\* old.replace: the first occurrence of old in s at or after i, 0 for none.
RECURSIVE FindFrom(_, _, _)
FindFrom(s, old, i) ==
  IF i + Len(old) - 1 > Len(s) THEN 0
  ELSE IF SubSeq(s, i, i + Len(old) - 1) = old THEN i
  ELSE FindFrom(s, old, i + 1)

\* str.replace(old, new): every occurrence, left to right.
RECURSIVE ReplaceFrom(_, _, _, _)
ReplaceFrom(s, old, new, i) ==
  LET k == FindFrom(s, old, i)
  IN IF k = 0 THEN SubSeq(s, i, Len(s))
     ELSE SubSeq(s, i, k - 1) \o new \o ReplaceFrom(s, old, new, k + Len(old))

Replace(s, old, new) == ReplaceFrom(s, old, new, 1)

\* re.sub(r'[\s\-_]+', ' ', s): each run of spaces, hyphens and underscores
\* becomes one space.
IsSeparator(c) == c \in {" ", "-", "_"}

RECURSIVE CollapseSeparators(_)
CollapseSeparators(s) ==
  IF s = <<>> THEN <<>>
  ELSE IF IsSeparator(Head(s))
       THEN IF Len(s) > 1 /\ IsSeparator(s[2]) THEN CollapseSeparators(Tail(s))
            ELSE <<" ">> \o CollapseSeparators(Tail(s))
  ELSE <<Head(s)>> \o CollapseSeparators(Tail(s))

\* re.sub(r'\bMV\s+', '', s)
RECURSIVE RemoveMV(_, _)
RemoveMV(s, i) ==
  IF i > Len(s) THEN <<>>
  ELSE IF /\ WordBoundary(s, i) /\ At(s, i) = "M" /\ At(s, i + 1) = "V"
          /\ IsSpace(At(s, i + 2))
       THEN LET j == CHOOSE n \in (i + 3)..(Len(s) + 1) :
                       /\ \A m \in (i + 2)..(n - 1) : IsSpace(s[m])
                       /\ ~IsSpace(At(s, n))
            IN RemoveMV(s, j)
       ELSE <<s[i]>> \o RemoveMV(s, i + 1)

\* re.sub(r'\bV\.\s*', '', s)
RECURSIVE RemoveVDot(_, _)
RemoveVDot(s, i) ==
  IF i > Len(s) THEN <<>>
  ELSE IF WordBoundary(s, i) /\ At(s, i) = "V" /\ At(s, i + 1) = "."
       THEN LET j == CHOOSE n \in (i + 2)..(Len(s) + 1) :
                       /\ \A m \in (i + 2)..(n - 1) : IsSpace(s[m])
                       /\ ~IsSpace(At(s, n))
            IN RemoveVDot(s, j)
       ELSE <<s[i]>> \o RemoveVDot(s, i + 1)

\* re.sub(r'\s+WORD$', '', s): the word at the end and the spaces before it.
RECURSIVE DropTrailingSpaces(_)
DropTrailingSpaces(s) ==
  IF s # <<>> /\ IsSpace(s[Len(s)]) THEN DropTrailingSpaces(SubSeq(s, 1, Len(s) - 1))
  ELSE s

RemoveSuffixWord(s, word) ==
  IF /\ Len(s) > Len(word)
     /\ SubSeq(s, Len(s) - Len(word) + 1, Len(s)) = word
     /\ IsSpace(s[Len(s) - Len(word)])
  THEN DropTrailingSpaces(SubSeq(s, 1, Len(s) - Len(word)))
  ELSE s

EXPRESS == <<"E", "X", "P", "R", "E", "S", "S">>
SERVICE == <<"S", "E", "R", "V", "I", "C", "E">>

\* vessel_replacements (lines 77-86), in the order of the dict.
vessel_replacements ==
  <<<<<<"C", "M", "A", " ", "C", "G", "M">>, <<"C", "M", "A", "C", "G", "M">>>>,
    <<<<"M", "A", "E", "R", "S", "K", " ", "L", "I", "N", "E">>,
      <<"M", "A", "E", "R", "S", "K">>>>,
    <<<<"E", "V", "E", "R", "G", "R", "E", "E", "N", " ", "L", "I", "N", "E">>,
      <<"E", "V", "E", "R", "G", "R", "E", "E", "N">>>>,
    <<<<"C", "O", "S", "C", "O", " ", "S", "H", "I", "P", "P", "I", "N", "G">>,
      <<"C", "O", "S", "C", "O">>>>,
    <<<<"H", "A", "P", "A", "G", " ", "L", "L", "O", "Y", "D">>,
      <<"H", "A", "P", "A", "G", "-", "L", "L", "O", "Y", "D">>>>,
    <<<<"O", "N", "E", " ", "L", "I", "N", "E">>, <<"O", "N", "E">>>>,
    <<<<"O", "O", "C", "L", " ", "L", "I", "M", "I", "T", "E", "D">>,
      <<"O", "O", "C", "L">>>>,
    <<<<"Y", "A", "N", "G", " ", "M", "I", "N", "G">>,
      <<"Y", "A", "N", "G", "M", "I", "N", "G">>>>>>

RECURSIVE ApplyReplacements(_, _)
ApplyReplacements(s, k) ==
  IF k > Len(vessel_replacements) THEN s
  ELSE ApplyReplacements(
         Replace(s, vessel_replacements[k][1], vessel_replacements[k][2]), k + 1)

\* normalize_vessel (lines 51-91)
normalize_vessel(vessel_value) ==
  IF vessel_value.kind = "nan" \/ (vessel_value.kind = "str" /\ vessel_value.text = <<>>)
  THEN <<>>
  ELSE LET upper == Upper(Strip(vessel_value.text))
           spaced == Strip(CollapseSeparators(upper))
           no_mv == RemoveMV(spaced, 1)
           no_v == RemoveVDot(no_mv, 1)
           no_express == RemoveSuffixWord(no_v, EXPRESS)
           no_service == RemoveSuffixWord(no_express, SERVICE)
       IN ApplyReplacements(no_service, 1)

\* str.lstrip('0')
RECURSIVE LStripZeros(_)
LStripZeros(s) == IF s # <<>> /\ Head(s) = "0" THEN LStripZeros(Tail(s)) ELSE s

\* re.search(r'(\d+)[A-Z]*', s).group(1): the first run of digits.
RECURSIVE FirstDigits(_, _)
FirstDigits(s, i) ==
  IF i > Len(s) THEN <<>>
  ELSE IF IsDigit(s[i])
       THEN LET j == CHOOSE n \in (i + 1)..(Len(s) + 1) :
                       /\ \A m \in i..(n - 1) : IsDigit(s[m])
                       /\ ~IsDigit(At(s, n))
            IN SubSeq(s, i, j - 1)
       ELSE FirstDigits(s, i + 1)

\* normalize_voyage (lines 94-108)
normalize_voyage(voyage_value) ==
  IF voyage_value.kind = "nan" \/ (voyage_value.kind = "str" /\ voyage_value.text = <<>>)
  THEN <<>>
  ELSE LET voyage_str == Upper(Strip(voyage_value.text))
       IN IF FirstDigits(voyage_str, 1) # <<>> THEN LStripZeros(FirstDigits(voyage_str, 1))
          ELSE voyage_str

\* container.strip() of the final check: a missing cell (NaN, a float) has
\* no strip().
IsStrContainer(container) == container.kind # "nan"
IsBlankContainer(container) ==
  container.kind = "empty" \/ (container.kind = "other" /\ container.raw = "")

\* Mutated form of pages_are_containers_equal: two identical numbers are
\* not enough, the types are compared as well.
pages_are_containers_equal_typed(container_a, container_b) ==
  LET norm_a == normalize_container_comparison(container_a)
      norm_b == normalize_container_comparison(container_b)
  IN IF norm_a.number # "" /\ norm_b.number # "" /\ norm_a.number # norm_b.number
     THEN "False"
     ELSE IF (norm_a.number # "") # (norm_b.number # "") THEN "False"
     ELSE IF norm_a.type # <<>> /\ norm_b.type # <<>>
     THEN IF \/ norm_a.type = norm_b.type
             \/ Contains(norm_a.type, norm_b.type)
             \/ Contains(norm_b.type, norm_a.type)
          THEN "True" ELSE "False"
     ELSE IF norm_a.display = norm_b.display THEN "True" ELSE "False"

\* are_containers_equal (pages/burnard_shipment_check.py, lines 180-225):
\* "True", "False", or "AttributeError" where strip() is called on a cell
\* that is not a text.
pages_are_containers_equal(container_a, container_b) ==
  LET norm_a == normalize_container_comparison(container_a)
      norm_b == normalize_container_comparison(container_b)
      num_a == norm_a.number
      num_b == norm_b.number
      type_a == norm_a.type
      type_b == norm_b.type
  IN IF num_a # "" /\ num_b # ""
     THEN IF num_a # num_b THEN "False" ELSE "True"
     ELSE IF (num_a # "" /\ num_b = "") \/ (num_a = "" /\ num_b # "") THEN "False"
     ELSE IF type_a # <<>> /\ type_b # <<>>
     THEN IF type_a = type_b THEN "True"
          ELSE IF Contains(type_a, type_b) \/ Contains(type_b, type_a) THEN "True"
          ELSE "False"
     ELSE IF ~IsStrContainer(container_a) THEN "AttributeError"
     ELSE IF ~IsBlankContainer(container_a) THEN "False"
     ELSE IF ~IsStrContainer(container_b) THEN "AttributeError"
     ELSE IF IsBlankContainer(container_b) THEN "True"
     ELSE "False"

\* compare_rows, the loop over columns_to_compare = ["ETA", "Container",
\* "Arrival Vessel", "Arrival Voyage"] (lines 229-271): the columns that
\* get an entry in differences; the loop ends where are_containers_equal
\* raises.
PagesRowDifferences(pg_a, pg_b, equal) ==
  (IF normalize_eta(pg_a.eta) # normalize_eta(pg_b.eta) THEN {"ETA"} ELSE {})
  \cup (IF equal = "False" THEN {"Container"} ELSE {})
  \cup (IF normalize_vessel(pg_a.vessel) # normalize_vessel(pg_b.vessel)
        THEN {"Arrival Vessel"} ELSE {})
  \cup (IF normalize_voyage(pg_a.voyage) # normalize_voyage(pg_b.voyage)
        THEN {"Arrival Voyage"} ELSE {})

\* compare_rows, the rules applied to differences (lines 273-316), branch
\* by branch.
PagesFilterDifferences(diffs) ==
  LET has_eta_diff == "ETA" \in diffs
      has_container_diff == "Container" \in diffs
      has_vessel_diff == "Arrival Vessel" \in diffs
  IN IF has_eta_diff /\ ~has_container_diff /\ ~has_vessel_diff THEN {"ETA"}
     ELSE IF has_container_diff /\ ~has_eta_diff /\ ~has_vessel_diff THEN {"Container"}
     ELSE IF has_vessel_diff /\ ~has_eta_diff /\ ~has_container_diff
          THEN {"Arrival Vessel"}
     ELSE IF has_eta_diff /\ has_container_diff THEN {"ETA", "Container"}
     ELSE IF has_eta_diff /\ has_vessel_diff THEN {"ETA", "Arrival Vessel"}
     ELSE IF has_container_diff /\ has_vessel_diff THEN {"Container", "Arrival Vessel"}
     ELSE IF has_eta_diff /\ has_container_diff /\ has_vessel_diff
          THEN {"ETA", "Container", "Arrival Vessel"}
     ELSE {}

\* -------------------------------------------- pages/dhl_shipment_check
T40RH == <<"4", "0", "R", "H">>

\* type_mappings (lines 122-127), in the order of the dict.
dhl_type_mappings ==
  <<<<T40RE, T40RE>>, <<T40REHC, T40RE>>, <<T40RH, T40RE>>, <<T40HC, T40HC>>,
    <<T40HCR, T40HC>>, <<T40HCRV, T40HC>>, <<T20GP, T20GP>>, <<T20RE, T20RE>>,
    <<T20RF, T20RF>>, <<T20FR, T20FR>>, <<T45HC, T45HC>>>>

\* normalize_container_type (lines 115-137)
dhl_normalize_container_type(container_type) ==
  IF container_type = <<>> THEN <<>>
  ELSE LET exact == {k \in 1..Len(dhl_type_mappings) :
                       dhl_type_mappings[k][1] = container_type}
           incl == {k \in 1..Len(dhl_type_mappings) :
                      Contains(dhl_type_mappings[k][1], container_type)}
       IN IF exact # {} THEN dhl_type_mappings[CHOOSE k \in exact : TRUE][2]
          ELSE IF incl # {}
               THEN dhl_type_mappings[CHOOSE k \in incl : \A j \in incl : k <= j][2]
               ELSE container_type

\* normalize_container_comparison (lines 139-177) of str(cell): number and
\* type.  str() of a missing cell is 'nan', which the type pattern reads as
\* the type NAN.
dhl_normalize_container_comparison(container_value) ==
  IF container_value.kind = "nan"
  THEN [number |-> "", type |-> dhl_normalize_container_type(<<"N", "A", "N">>)]
  ELSE IF container_value.kind = "empty" THEN [number |-> "", type |-> <<>>]
  ELSE IF container_value.kind \in {"num", "type"}
  THEN [number |-> container_value.number,
        type |-> dhl_normalize_container_type(container_value.ctype)]
  ELSE [number |-> "", type |-> <<>>]

\* are_containers_equal (lines 179-224)
dhl_are_containers_equal(container_a_raw, container_b_raw) ==
  LET norm_a == dhl_normalize_container_comparison(container_a_raw)
      norm_b == dhl_normalize_container_comparison(container_b_raw)
      num_a == norm_a.number
      num_b == norm_b.number
      type_a == norm_a.type
      type_b == norm_b.type
  IN IF num_a # "" /\ num_b # "" THEN TRUE
     ELSE IF num_a # "" /\ num_b = "" THEN FALSE
     ELSE IF type_a # <<>> /\ type_b # <<>>
     THEN \/ type_a = type_b
          \/ Contains(type_a, type_b)
          \/ Contains(type_b, type_a)
     ELSE IsBlankContainer(container_a_raw) /\ IsBlankContainer(container_b_raw)

\* compare_rows, the loop over the columns (lines 228-273).
DhlRowDifferences(pg_a, pg_b) ==
  (IF normalize_eta(pg_a.eta) # normalize_eta(pg_b.eta) THEN {"ETA"} ELSE {})
  \cup (IF ~dhl_are_containers_equal(pg_a.container, pg_b.container)
        THEN {"Container"} ELSE {})
  \cup (IF normalize_vessel(pg_a.vessel) # normalize_vessel(pg_b.vessel)
        THEN {"Arrival Vessel"} ELSE {})
  \cup (IF normalize_voyage(pg_a.voyage) # normalize_voyage(pg_b.voyage)
        THEN {"Arrival Voyage"} ELSE {})

\* Mutated form of DhlFilterDifferences: the voyage is reported whenever
\* it differs.
DhlFilterKeepsVoyage(diffs) == diffs

\* Mutated form of DhlFilterDifferences: the voyage is never reported.
DhlFilterCoreOnly(diffs) == diffs \cap {"ETA", "Container", "Arrival Vessel"}

\* compare_rows, the rules applied to differences (lines 275-322).
DhlFilterDifferences(diffs) ==
  LET has_eta_diff == "ETA" \in diffs
      has_container_diff == "Container" \in diffs
      has_vessel_diff == "Arrival Vessel" \in diffs
      has_voyage_diff == "Arrival Voyage" \in diffs
      is_core_diff == has_eta_diff \/ has_container_diff \/ has_vessel_diff
      core_count == Cardinality(diffs \cap {"ETA", "Container", "Arrival Vessel"})
      shown ==
        IF is_core_diff /\ core_count = 1
        THEN IF has_eta_diff THEN {"ETA"}
             ELSE IF has_container_diff THEN {"Container"}
             ELSE IF has_vessel_diff THEN {"Arrival Vessel"}
             ELSE {}
        ELSE IF core_count >= 2
        THEN (IF has_eta_diff THEN {"ETA"} ELSE {})
             \cup (IF has_container_diff THEN {"Container"} ELSE {})
             \cup (IF has_vessel_diff THEN {"Arrival Vessel"} ELSE {})
             \cup (IF has_voyage_diff THEN {"Arrival Voyage"} ELSE {})
        ELSE {}
  IN IF ~is_core_diff /\ ~has_voyage_diff THEN {}
     ELSE IF ~is_core_diff /\ has_voyage_diff THEN {}
     ELSE IF is_core_diff /\ has_voyage_diff /\ "Arrival Voyage" \in diffs
          THEN shown \cup {"Arrival Voyage"}
     ELSE shown

\* -------------------------------------------- supabase_data_updater.py
\* country_map = {item['code'].upper(): item['id'] for item in
\* country_response.data} (line 186): a later item replaces an earlier one
\* with the same upper-cased code.
CountryMap(country_data) ==
  [code \in {Upper(country_data[i].code) : i \in 1..Len(country_data)} |->
     LET at == {i \in 1..Len(country_data) : Upper(country_data[i].code) = code}
     IN country_data[CHOOSE i \in at : \A j \in at : j <= i].id]

\* port_code[:2]
FirstTwo(port_code) == SubSeq(port_code, 1, IF Len(port_code) < 2 THEN Len(port_code) ELSE 2)

\* Mutated form of PortCountryCode: the two letters as written.
PortCountryCodeAsWritten(port_code) == FirstTwo(port_code)

\* country_code = port_code[:2].upper() (line 202)
PortCountryCode(port_code) == Upper(FirstTwo(port_code))

\* The test of lines 201-205: the code is long enough and country_map has
\* an id for its country code.
HasCountry(map, port_code) ==
  Len(port_code) >= 2 /\ PortCountryCode(port_code) \in DOMAIN map

\* [item['port_code'] for item in data_to_insert] (line 215)
PortCodesOf(data) == [i \in 1..Len(data) |-> data[i].port_code]

\* ------------------------------------------------------------ test texts
PO == <<"P", "O">>

RECURSIVE Concat(_)
Concat(ts) == IF ts = <<>> THEN <<>> ELSE Head(ts) \o Concat(Tail(ts))

RefTokens ==
  {PO, <<" ">>, <<".">>, <<"/">>, <<"-">>, <<"-", "R">>,
   Pad(106922, 6), Pad(123, 6), Pad(23, 2)}

TokenRefs ==
  {Concat(ts) : ts \in UNION {[1..n -> RefTokens] : n \in 0..MaxTokens}}

\* 'PO' + six digits + '-' + two digits.
RangeBases == {106922, 106900, 106999, 999999, 100000, 123, 99}

RangeRef(b, e) == PO \o Pad(b, 6) \o <<"-">> \o Pad(e, 2)

RangeRefs == {RangeRef(b, e) : b \in RangeBases, e \in 0..99}

RefInputs ==
  {StrCell(t) : t \in TokenRefs \cup RangeRefs}
  \cup {NanCell, NumCell(Pad(106922, 6))}

\* 'BC PO' cells: token texts and the examples of the docstrings.
CellTokens ==
  {Pad(107977, 6), Pad(107978, 6), <<"(">>, <<")">>, <<"/">>, <<" ">>}

TokenCells ==
  {Concat(ts) : ts \in UNION {[1..n -> CellTokens] : n \in 0..MaxCellTokens}}

ExampleCells ==
  {Concat(<<Pad(107977, 6), <<"/">>, Pad(107978, 6), <<"/">>, Pad(107978, 6)>>),
   Concat(<<Pad(107977, 6), <<"(">>, Pad(106897, 6), <<")">>>>),
   Concat(<<<<"(", "(", "1", ")">>, Pad(106897, 6), <<")">>>>),
   Concat(<<Pad(107977, 6), <<"/", "(", "(">>, Pad(106897, 6), <<")", " ">>,
            Pad(106898, 6), <<")">>>>),
   Concat(<<PO, Pad(107977, 6)>>),
   Concat(<<Pad(107977, 6), <<".", "0">>>>)}

SplitInputs ==
  {StrCell(t) : t \in TokenCells \cup ExampleCells}
  \cup {NanCell, NoneCell, NumCell(Pad(107977, 6)),
        NumCell(Pad(107977, 6) \o <<".", "0">>)}

\* Excel A of the comparison tool: 'Estimated Arrival' and 'All References'.
ToolArrivals == {NanVal, TsVal(1, 0), BadStrVal, NumVal}

ToolRefs ==
  {StrCell(RangeRef(106922, 23)),
   StrCell(Concat(<<Pad(106922, 6), <<"/">>, Pad(106922, 6)>>))}

ToolRowsA == [arrival : ToolArrivals, refs : ToolRefs]

\* Excel B: the 'BC PO' column.
ToolCellsB ==
  {NumCell(Pad(106922, 6)), StrCell(Pad(106923, 6)),
   NumCell(Pad(106923, 6) \o <<".", "0">>)}

SeqsUpTo(S, n) == UNION {[1..k -> S] : k \in 0..n}

\* Rows for compare_rows: ETA and Container values.
RowEtas ==
  {NanVal, EmptyVal, BadStrVal, NumVal, TsVal(1, 0), TsVal(1, 1), StrVal(1, 1),
   TsVal(2, 0)}

RowContainers ==
  {NanContainer,
   NumContainer("ABCD1234567", T40HC, "ABCD1234567(40HC)"),
   NumContainer("ABCD1234567", T40HCR, "ABCD1234567 40HCR"),
   NumContainer("ABCD1234567", <<>>, "ABCD1234567"),
   NumContainer("WXYZ7654321", T40HC, "WXYZ7654321(40HC)"),
   TypeContainer(T40RE, "(40RE)"),
   OtherContainer("-")}

CompareRowInputs == [eta : RowEtas, container : RowContainers]

\* Excel A of the Burnard check: 'Order #', 'ETA', 'Container'.
BurnardOrders ==
  {StrCell(Pad(106922, 6)),
   StrCell(Concat(<<Pad(106922, 6), <<" ">>, Pad(106236, 6)>>)),
   StrCell(Concat(<<PO, Pad(106236, 6)>>)),
   NanCell}

BurnardRowsA ==
  [order : BurnardOrders, eta : {NanVal, TsVal(1, 1)},
   container : {NumContainer("ABCD1234567", T40HC, "ABCD1234567(40HC)")}]

\* Excel B of the Burnard check: 'BC PO', 'ETA', 'Container'.
BurnardRowsB ==
  {[bc_po |-> NumCell(Pad(106922, 6) \o <<".", "0">>), eta |-> TsVal(1, 0),
    container |-> NumContainer("ABCD1234567", T40HCR, "ABCD1234567 40HCR")],
   [bc_po |-> StrCell(Pad(1069221, 7)), eta |-> TsVal(2, 0),
    container |-> NumContainer("WXYZ7654321", T40HC, "WXYZ7654321(40HC)")],
   [bc_po |-> StrCell(Concat(<<Pad(106236, 6), <<"/">>, Pad(106922, 6)>>)),
    eta |-> NanVal, container |-> NanContainer],
   [bc_po |-> NanCell, eta |-> TsVal(1, 0), container |-> TypeContainer(T40RE, "(40RE)")]}

\* The BC file: 'No.' and 'Arrival Date'.
BcRow(no, arrival) == [no |-> no, arrival |-> arrival]

BcFiles ==
  {<<>>,
   <<BcRow(StrCell(PO \o Pad(107977, 6)), TsVal(10, 23))>>,
   <<BcRow(StrCell(<<"p", "o">> \o Pad(107978, 6)), TsVal(11, 0))>>,
   <<BcRow(StrCell(PO \o Pad(107977, 6)), NanVal)>>,
   <<BcRow(StrCell(Pad(107977, 6)), TsVal(11, 0)),
     BcRow(StrCell(PO \o Pad(107978, 6)), TsVal(13, 5))>>,
   <<BcRow(StrCell(PO \o Pad(107977, 6)), TsVal(11, 7)),
     BcRow(StrCell(PO \o Pad(107977, 6)), TsVal(12, 0))>>}

\* The import workbook: rows with 'BC PO' and an ETA.
ImportRow(bc_po, eta) == [bc_po |-> bc_po, eta |-> eta]

ImportRows ==
  {ImportRow(StrCell(Pad(107977, 6)), TsVal(11, 9)),
   ImportRow(StrCell(Concat(<<Pad(107977, 6), <<"/">>, Pad(107978, 6), <<"/">>,
                              Pad(107978, 6)>>)), TsVal(13, 0)),
   ImportRow(StrCell(Concat(<<Pad(107978, 6), <<"(">>, Pad(107977, 6), <<")">>>>)),
             NanVal),
   ImportRow(NumCell(Pad(107977, 6)), TsVal(10, 0)),
   ImportRow(NanCell, TsVal(11, 9))}

\* The columns of a sheet, lower-cased: both, or the ETA under another name.
SheetColumns ==
  {{"bc po", "estimated arrival"}, {"bc po", "eta dates"}}

SheetNames == <<"03.2026", "04.2026">>

\* Workbooks of one or two sheets with at most MaxImportRows rows in all.
RowCount(wb) ==
  IF Len(wb) = 1 THEN Len(wb[1].rows) ELSE Len(wb[1].rows) + Len(wb[2].rows)

Workbooks ==
  {wb \in UNION {[1..n -> [columns : SheetColumns,
                            rows : SeqsUpTo(ImportRows, MaxImportRows)]] :
                   n \in 1..Len(SheetNames)} :
     RowCount(wb) <= MaxImportRows}

Tolerances == {0, 1, 2}

\* Rows of the two processed frames of the TRI-STAR check.
TriRow(po, eta, vessel, voyage, container) ==
  [PO_Clean |-> po, eta |-> eta, vessel |-> vessel, voyage |-> voyage,
   container |-> container]

TriPOs == <<Pad(106922, 6), Pad(106923, 6)>>

\* eta, vessel, voyage, container of a row of the TRI-STAR report; its ETA
\* is a valid date.
TriFieldsA ==
  {<<TsVal(10, 0), StrCell(<<"M", "s", "c", " ", "A">>), StrCell(<<"1", "2", "n">>),
     TriContainer("MSCU1234567", "(20GP)")>>,
   <<TsVal(10, 0), StrCell(<<"M", "S", "C", "A">>), StrCell(<<"1", "2", "N">>),
     TriContainer("", "(20GP)")>>,
   <<TsVal(11, 5), NanCell, StrCell(<<"1", "3", "N">>),
     TriContainer("MSCU7654321", "")>>,
   <<TsVal(10, 0), StrCell(<<"M", "S", "C", "B">>), NanCell,
     TriContainer("", "")>>}

\* The same of a row of the import document.
TriFieldsB ==
  {<<TsVal(10, 9), StrCell(<<"m", "s", "c", "a">>), StrCell(<<"1", "2", " ", "N">>),
     TriContainer("MSCU1234567", "(40HC)")>>,
   <<NanVal, StrCell(<<"M", "S", "C", " ", "B">>), StrCell(<<"1", "2", "N">>),
     TriContainer("", "")>>,
   <<TsVal(10, 0), StrCell(<<"M", "S", "C", "A">>), StrCell(<<"1", "4", "N">>),
     TriContainer("MSCU7654321", "(20GP)")>>,
   <<BadStrVal, StrCell(<<>>), NanCell,
     TriContainer("MSCU1234567", "(20GP)")>>}

\* Frames with at most one row for each PO (drop_duplicates on PO_Clean).
TriFrames(fields) ==
  {<<>>}
  \cup {<<TriRow(TriPOs[i], f[1], f[2], f[3], f[4])>> :
          i \in 1..Len(TriPOs), f \in fields}
  \cup {<<TriRow(TriPOs[i], f[1], f[2], f[3], f[4]),
          TriRow(TriPOs[3 - i], g[1], g[2], g[3], g[4])>> :
          i \in 1..Len(TriPOs), f \in fields, g \in fields}

\* Sheet names of an import document.
SheetNameTexts ==
  {<<"1", "2", ".", "2", "0", "2", "4">>,
   <<"0", "1", ".", "2", "0", "2", "5">>,
   <<"1", ".", "2", "0", "2", "5">>,
   <<" ", "0", "2", ".", "2", "0", "2", "5">>,
   <<"1", "3", ".", "2", "0", "2", "4">>,
   <<"D", "o", "c", " ", "0", "3", ".", "2", "0", "2", "5">>,
   <<"O", "l", "d">>}

\* A workbook has at least one sheet and no two sheets of one name.
SheetNameLists ==
  {names \in SeqsUpTo(SheetNameTexts, MaxSheetNames) :
     /\ names # <<>>
     /\ \A i, j \in 1..Len(names) : i # j => names[i] # names[j]}

SheetPages == {"burnard", "dhl", "tri-star"}

\* Rows for compare_rows of the two pages: ETA, Container, Arrival Vessel,
\* Arrival Voyage.
PagesContainers ==
  {NanContainer,
   EmptyContainer,
   NumContainer("ABCD1234567", T40HC, "ABCD1234567(40HC)"),
   NumContainer("ABCD1234567", T20GP, "ABCD1234567(20GP)"),
   NumContainer("WXYZ7654321", T40HC, "WXYZ7654321(40HC)"),
   TypeContainer(T40RE, "(40RE)"),
   TypeContainer(T40REHC, "(40REHC)"),
   TypeContainer(<<"4", "0">>, "40"),
   TypeContainer(T20GP, "(20GP)")}

PagesRowsA ==
  [eta : {TsVal(1, 0)},
   container : PagesContainers,
   vessel : {StrCell(<<"M", "V", " ", "M", "a", "e", "r", "s", "k", " ", "L", "i", "n", "e">>),
             NanCell},
   voyage : {StrCell(<<"0", "1", "2", "E">>)}]

PagesRowsB ==
  [eta : {TsVal(1, 5), TsVal(2, 0)},
   container : PagesContainers,
   vessel : {StrCell(<<"M", "A", "E", "R", "S", "K">>), StrCell(<<"M", "S", "C">>)},
   voyage : {StrCell(<<"1", "2">>), StrCell(<<"1", "3">>), NanCell}]

PagesOfRows == {"burnard", "dhl"}

\* Port codes handed to upload_new_ports and the rows of the 'countries'
\* table.
MaxPortCodes == 3

CNSHA == <<"C", "N", "S", "H", "A">>
PortCodeTexts ==
  {CNSHA,
   <<"c", "n", "n", "g", "b">>,
   <<"N", "Z", "A", "K", "L">>,
   <<"X", "X", "1", "2", "3">>,
   <<"N", "Z">>,
   <<"C">>,
   <<>>}

PortCodeLists ==
  {codes \in SeqsUpTo(PortCodeTexts, MaxPortCodes) :
     \A i, j \in 1..Len(codes) : i # j => codes[i] # codes[j]}

Country(id, code) == [id |-> id, code |-> code]

CountryTables ==
  {<<>>,
   <<Country(1, <<"C", "N">>), Country(2, <<"N", "Z">>)>>,
   <<Country(1, <<"c", "n">>)>>,
   <<Country(1, <<"C", "N">>), Country(2, <<"N", "Z">>), Country(3, <<"c", "n">>)>>}

\* Port codes the 'ports' table already holds.
StoredPortSets == {{}, {CNSHA}}

\* ---------------------------------------------------------------- state
VARIABLES
  \* extract_po_numbers
  ref_str, numbers, po_pc,
  \* split_bc_po_value
  bc_po_value, cleaned, split_out, split_pc,
  \* comparation_tool.py page
  excel_a, excel_b, df_a, df_a_expanded, duplicates, b_po_set, matched, unmatched, result, tool_pc,
  \* burnard_shipment_check.compare_rows
  row_a, row_b, differences, filtered_differences, rows_pc,
  \* burnard_shipment_check.py page
  file_a, file_b, df_a_clean, po_map_a, po_set_b, matched_differences, unmatched_pos, compared, bu_i, bu_pc,
  \* eta_discrepancy.py page
  bc_file, imp_file, bc_df, rows, imp_df, merged, mismatches, missing, tol, eta_i, eta_pc,
  \* pages/tri-star_shipment_check.compare_dataframes
  tri_a, tri_b, matched_pos, unmatched_a_pos, tri_todo, eta_diffs, vessel_diffs, container_diffs, results, tri_pc,
  \* import-doc sheet selection
  sheet_names_b, sheet_page, latest_date, latest_sheet, date_sheets, used_sheet, sh_i, sh_pc,
  \* compare_rows of pages/burnard_shipment_check and pages/dhl_shipment_check
  pg_page, pg_row_a, pg_row_b, pg_differences, pg_filtered, pg_pc,
  \* upload_new_ports of supabase_data_updater
  unique_port_codes, countries, stored_ports, country_map, data_to_insert, ports_without_country, upserts, up_result, up_i, up_pc

poVars == <<ref_str, numbers, po_pc>>
splitVars == <<bc_po_value, cleaned, split_out, split_pc>>
toolVars == <<excel_a, excel_b, df_a, df_a_expanded, duplicates, b_po_set, matched, unmatched, result, tool_pc>>
rowsVars == <<row_a, row_b, differences, filtered_differences, rows_pc>>
burnardVars == <<file_a, file_b, df_a_clean, po_map_a, po_set_b, matched_differences, unmatched_pos, compared, bu_i, bu_pc>>
etaVars == <<bc_file, imp_file, bc_df, rows, imp_df, merged, mismatches, missing, tol, eta_i, eta_pc>>
triVars == <<tri_a, tri_b, matched_pos, unmatched_a_pos, tri_todo, eta_diffs, vessel_diffs, container_diffs, results, tri_pc>>
sheetsVars == <<sheet_names_b, sheet_page, latest_date, latest_sheet, date_sheets, used_sheet, sh_i, sh_pc>>
pagesVars == <<pg_page, pg_row_a, pg_row_b, pg_differences, pg_filtered, pg_pc>>
uploadVars == <<unique_port_codes, countries, stored_ports, country_map, data_to_insert, ports_without_country, upserts, up_result, up_i, up_pc>>

vars == <<poVars, splitVars, toolVars, rowsVars, burnardVars, etaVars, triVars, sheetsVars, pagesVars, uploadVars>>

\* What each run leaves alone.
notPO == <<splitVars, toolVars, rowsVars, burnardVars, etaVars, triVars, sheetsVars, pagesVars, uploadVars>>
notSplit == <<poVars, toolVars, rowsVars, burnardVars, etaVars, triVars, sheetsVars, pagesVars, uploadVars>>
notTool == <<poVars, splitVars, rowsVars, burnardVars, etaVars, triVars, sheetsVars, pagesVars, uploadVars>>
notRows == <<poVars, splitVars, toolVars, burnardVars, etaVars, triVars, sheetsVars, pagesVars, uploadVars>>
notBurnard == <<poVars, splitVars, toolVars, rowsVars, etaVars, triVars, sheetsVars, pagesVars, uploadVars>>
notEta == <<poVars, splitVars, toolVars, rowsVars, burnardVars, triVars, sheetsVars, pagesVars, uploadVars>>
notTri == <<poVars, splitVars, toolVars, rowsVars, burnardVars, etaVars, sheetsVars, pagesVars, uploadVars>>
notSheets == <<poVars, splitVars, toolVars, rowsVars, burnardVars, etaVars, triVars, pagesVars, uploadVars>>
notPages == <<poVars, splitVars, toolVars, rowsVars, burnardVars, etaVars, triVars, sheetsVars, uploadVars>>
notUpload == <<poVars, splitVars, toolVars, rowsVars, burnardVars, etaVars, triVars, sheetsVars, pagesVars>>

\* Each run starts from its inputs; the state of the other pages is idle.
POInit ==
  /\ ref_str \in RefInputs
  /\ numbers = {}
  /\ po_pc = "start"
  /\ bc_po_value = NoneCell
  /\ cleaned = <<>>
  /\ split_out = <<>>
  /\ split_pc = "off"
  /\ excel_a = <<>>
  /\ excel_b = <<>>
  /\ df_a = <<>>
  /\ df_a_expanded = <<>>
  /\ duplicates = {}
  /\ b_po_set = {}
  /\ matched = <<>>
  /\ unmatched = <<>>
  /\ result = <<>>
  /\ tool_pc = "off"
  /\ row_a = [eta |-> NanVal, container |-> NanContainer]
  /\ row_b = [eta |-> NanVal, container |-> NanContainer]
  /\ differences = {}
  /\ filtered_differences = {}
  /\ rows_pc = "off"
  /\ file_a = <<>>
  /\ file_b = <<>>
  /\ df_a_clean = <<>>
  /\ po_map_a = <<>>
  /\ po_set_b = {}
  /\ matched_differences = <<>>
  /\ unmatched_pos = <<>>
  /\ compared = <<>>
  /\ bu_i = 0
  /\ bu_pc = "off"
  /\ bc_file = <<>>
  /\ imp_file = <<>>
  /\ bc_df = <<>>
  /\ rows = <<>>
  /\ imp_df = <<>>
  /\ merged = <<>>
  /\ mismatches = <<>>
  /\ missing = <<>>
  /\ tol = 0
  /\ eta_i = 0
  /\ eta_pc = "off"
  /\ tri_a = <<>>
  /\ tri_b = <<>>
  /\ matched_pos = {}
  /\ unmatched_a_pos = {}
  /\ tri_todo = {}
  /\ eta_diffs = <<>>
  /\ vessel_diffs = <<>>
  /\ container_diffs = <<>>
  /\ results = [eta_diffs |-> <<>>]
  /\ tri_pc = "off"
  /\ sheet_names_b = <<>>
  /\ sheet_page = "off"
  /\ latest_date = <<>>
  /\ latest_sheet = <<>>
  /\ date_sheets = <<>>
  /\ used_sheet = <<>>
  /\ sh_i = 0
  /\ sh_pc = "off"
  /\ pg_page = "off"
  /\ pg_row_a = [eta |-> NanVal]
  /\ pg_row_b = [eta |-> NanVal]
  /\ pg_differences = {}
  /\ pg_filtered = {}
  /\ pg_pc = "off"
  /\ unique_port_codes = <<>>
  /\ countries = <<>>
  /\ stored_ports = {}
  /\ country_map = <<>>
  /\ data_to_insert = <<>>
  /\ ports_without_country = <<>>
  /\ upserts = <<>>
  /\ up_result = [success |-> FALSE]
  /\ up_i = 0
  /\ up_pc = "off"

SplitInit ==
  /\ ref_str = NanCell
  /\ numbers = {}
  /\ po_pc = "off"
  /\ bc_po_value \in SplitInputs
  /\ cleaned = <<>>
  /\ split_out = <<>>
  /\ split_pc = "start"
  /\ excel_a = <<>>
  /\ excel_b = <<>>
  /\ df_a = <<>>
  /\ df_a_expanded = <<>>
  /\ duplicates = {}
  /\ b_po_set = {}
  /\ matched = <<>>
  /\ unmatched = <<>>
  /\ result = <<>>
  /\ tool_pc = "off"
  /\ row_a = [eta |-> NanVal, container |-> NanContainer]
  /\ row_b = [eta |-> NanVal, container |-> NanContainer]
  /\ differences = {}
  /\ filtered_differences = {}
  /\ rows_pc = "off"
  /\ file_a = <<>>
  /\ file_b = <<>>
  /\ df_a_clean = <<>>
  /\ po_map_a = <<>>
  /\ po_set_b = {}
  /\ matched_differences = <<>>
  /\ unmatched_pos = <<>>
  /\ compared = <<>>
  /\ bu_i = 0
  /\ bu_pc = "off"
  /\ bc_file = <<>>
  /\ imp_file = <<>>
  /\ bc_df = <<>>
  /\ rows = <<>>
  /\ imp_df = <<>>
  /\ merged = <<>>
  /\ mismatches = <<>>
  /\ missing = <<>>
  /\ tol = 0
  /\ eta_i = 0
  /\ eta_pc = "off"
  /\ tri_a = <<>>
  /\ tri_b = <<>>
  /\ matched_pos = {}
  /\ unmatched_a_pos = {}
  /\ tri_todo = {}
  /\ eta_diffs = <<>>
  /\ vessel_diffs = <<>>
  /\ container_diffs = <<>>
  /\ results = [eta_diffs |-> <<>>]
  /\ tri_pc = "off"
  /\ sheet_names_b = <<>>
  /\ sheet_page = "off"
  /\ latest_date = <<>>
  /\ latest_sheet = <<>>
  /\ date_sheets = <<>>
  /\ used_sheet = <<>>
  /\ sh_i = 0
  /\ sh_pc = "off"
  /\ pg_page = "off"
  /\ pg_row_a = [eta |-> NanVal]
  /\ pg_row_b = [eta |-> NanVal]
  /\ pg_differences = {}
  /\ pg_filtered = {}
  /\ pg_pc = "off"
  /\ unique_port_codes = <<>>
  /\ countries = <<>>
  /\ stored_ports = {}
  /\ country_map = <<>>
  /\ data_to_insert = <<>>
  /\ ports_without_country = <<>>
  /\ upserts = <<>>
  /\ up_result = [success |-> FALSE]
  /\ up_i = 0
  /\ up_pc = "off"

ToolInit ==
  /\ ref_str = NanCell
  /\ numbers = {}
  /\ po_pc = "off"
  /\ bc_po_value = NoneCell
  /\ cleaned = <<>>
  /\ split_out = <<>>
  /\ split_pc = "off"
  /\ excel_a \in SeqsUpTo(ToolRowsA, MaxRowsA)
  /\ excel_b \in SeqsUpTo(ToolCellsB, MaxRowsB)
  /\ df_a = <<>>
  /\ df_a_expanded = <<>>
  /\ duplicates = {}
  /\ b_po_set = {}
  /\ matched = <<>>
  /\ unmatched = <<>>
  /\ result = <<>>
  /\ tool_pc = "read"
  /\ row_a = [eta |-> NanVal, container |-> NanContainer]
  /\ row_b = [eta |-> NanVal, container |-> NanContainer]
  /\ differences = {}
  /\ filtered_differences = {}
  /\ rows_pc = "off"
  /\ file_a = <<>>
  /\ file_b = <<>>
  /\ df_a_clean = <<>>
  /\ po_map_a = <<>>
  /\ po_set_b = {}
  /\ matched_differences = <<>>
  /\ unmatched_pos = <<>>
  /\ compared = <<>>
  /\ bu_i = 0
  /\ bu_pc = "off"
  /\ bc_file = <<>>
  /\ imp_file = <<>>
  /\ bc_df = <<>>
  /\ rows = <<>>
  /\ imp_df = <<>>
  /\ merged = <<>>
  /\ mismatches = <<>>
  /\ missing = <<>>
  /\ tol = 0
  /\ eta_i = 0
  /\ eta_pc = "off"
  /\ tri_a = <<>>
  /\ tri_b = <<>>
  /\ matched_pos = {}
  /\ unmatched_a_pos = {}
  /\ tri_todo = {}
  /\ eta_diffs = <<>>
  /\ vessel_diffs = <<>>
  /\ container_diffs = <<>>
  /\ results = [eta_diffs |-> <<>>]
  /\ tri_pc = "off"
  /\ sheet_names_b = <<>>
  /\ sheet_page = "off"
  /\ latest_date = <<>>
  /\ latest_sheet = <<>>
  /\ date_sheets = <<>>
  /\ used_sheet = <<>>
  /\ sh_i = 0
  /\ sh_pc = "off"
  /\ pg_page = "off"
  /\ pg_row_a = [eta |-> NanVal]
  /\ pg_row_b = [eta |-> NanVal]
  /\ pg_differences = {}
  /\ pg_filtered = {}
  /\ pg_pc = "off"
  /\ unique_port_codes = <<>>
  /\ countries = <<>>
  /\ stored_ports = {}
  /\ country_map = <<>>
  /\ data_to_insert = <<>>
  /\ ports_without_country = <<>>
  /\ upserts = <<>>
  /\ up_result = [success |-> FALSE]
  /\ up_i = 0
  /\ up_pc = "off"

RowsInit ==
  /\ ref_str = NanCell
  /\ numbers = {}
  /\ po_pc = "off"
  /\ bc_po_value = NoneCell
  /\ cleaned = <<>>
  /\ split_out = <<>>
  /\ split_pc = "off"
  /\ excel_a = <<>>
  /\ excel_b = <<>>
  /\ df_a = <<>>
  /\ df_a_expanded = <<>>
  /\ duplicates = {}
  /\ b_po_set = {}
  /\ matched = <<>>
  /\ unmatched = <<>>
  /\ result = <<>>
  /\ tool_pc = "off"
  /\ row_a \in CompareRowInputs
  /\ row_b \in CompareRowInputs
  /\ differences = {}
  /\ filtered_differences = {}
  /\ rows_pc = "start"
  /\ file_a = <<>>
  /\ file_b = <<>>
  /\ df_a_clean = <<>>
  /\ po_map_a = <<>>
  /\ po_set_b = {}
  /\ matched_differences = <<>>
  /\ unmatched_pos = <<>>
  /\ compared = <<>>
  /\ bu_i = 0
  /\ bu_pc = "off"
  /\ bc_file = <<>>
  /\ imp_file = <<>>
  /\ bc_df = <<>>
  /\ rows = <<>>
  /\ imp_df = <<>>
  /\ merged = <<>>
  /\ mismatches = <<>>
  /\ missing = <<>>
  /\ tol = 0
  /\ eta_i = 0
  /\ eta_pc = "off"
  /\ tri_a = <<>>
  /\ tri_b = <<>>
  /\ matched_pos = {}
  /\ unmatched_a_pos = {}
  /\ tri_todo = {}
  /\ eta_diffs = <<>>
  /\ vessel_diffs = <<>>
  /\ container_diffs = <<>>
  /\ results = [eta_diffs |-> <<>>]
  /\ tri_pc = "off"
  /\ sheet_names_b = <<>>
  /\ sheet_page = "off"
  /\ latest_date = <<>>
  /\ latest_sheet = <<>>
  /\ date_sheets = <<>>
  /\ used_sheet = <<>>
  /\ sh_i = 0
  /\ sh_pc = "off"
  /\ pg_page = "off"
  /\ pg_row_a = [eta |-> NanVal]
  /\ pg_row_b = [eta |-> NanVal]
  /\ pg_differences = {}
  /\ pg_filtered = {}
  /\ pg_pc = "off"
  /\ unique_port_codes = <<>>
  /\ countries = <<>>
  /\ stored_ports = {}
  /\ country_map = <<>>
  /\ data_to_insert = <<>>
  /\ ports_without_country = <<>>
  /\ upserts = <<>>
  /\ up_result = [success |-> FALSE]
  /\ up_i = 0
  /\ up_pc = "off"

BurnardInit ==
  /\ ref_str = NanCell
  /\ numbers = {}
  /\ po_pc = "off"
  /\ bc_po_value = NoneCell
  /\ cleaned = <<>>
  /\ split_out = <<>>
  /\ split_pc = "off"
  /\ excel_a = <<>>
  /\ excel_b = <<>>
  /\ df_a = <<>>
  /\ df_a_expanded = <<>>
  /\ duplicates = {}
  /\ b_po_set = {}
  /\ matched = <<>>
  /\ unmatched = <<>>
  /\ result = <<>>
  /\ tool_pc = "off"
  /\ row_a = [eta |-> NanVal, container |-> NanContainer]
  /\ row_b = [eta |-> NanVal, container |-> NanContainer]
  /\ differences = {}
  /\ filtered_differences = {}
  /\ rows_pc = "off"
  /\ file_a \in SeqsUpTo(BurnardRowsA, MaxOrdersA)
  /\ file_b \in SeqsUpTo(BurnardRowsB, MaxRowsB)
  /\ df_a_clean = <<>>
  /\ po_map_a = <<>>
  /\ po_set_b = {}
  /\ matched_differences = <<>>
  /\ unmatched_pos = <<>>
  /\ compared = <<>>
  /\ bu_i = 0
  /\ bu_pc = "read"
  /\ bc_file = <<>>
  /\ imp_file = <<>>
  /\ bc_df = <<>>
  /\ rows = <<>>
  /\ imp_df = <<>>
  /\ merged = <<>>
  /\ mismatches = <<>>
  /\ missing = <<>>
  /\ tol = 0
  /\ eta_i = 0
  /\ eta_pc = "off"
  /\ tri_a = <<>>
  /\ tri_b = <<>>
  /\ matched_pos = {}
  /\ unmatched_a_pos = {}
  /\ tri_todo = {}
  /\ eta_diffs = <<>>
  /\ vessel_diffs = <<>>
  /\ container_diffs = <<>>
  /\ results = [eta_diffs |-> <<>>]
  /\ tri_pc = "off"
  /\ sheet_names_b = <<>>
  /\ sheet_page = "off"
  /\ latest_date = <<>>
  /\ latest_sheet = <<>>
  /\ date_sheets = <<>>
  /\ used_sheet = <<>>
  /\ sh_i = 0
  /\ sh_pc = "off"
  /\ pg_page = "off"
  /\ pg_row_a = [eta |-> NanVal]
  /\ pg_row_b = [eta |-> NanVal]
  /\ pg_differences = {}
  /\ pg_filtered = {}
  /\ pg_pc = "off"
  /\ unique_port_codes = <<>>
  /\ countries = <<>>
  /\ stored_ports = {}
  /\ country_map = <<>>
  /\ data_to_insert = <<>>
  /\ ports_without_country = <<>>
  /\ upserts = <<>>
  /\ up_result = [success |-> FALSE]
  /\ up_i = 0
  /\ up_pc = "off"

EtaInit ==
  /\ ref_str = NanCell
  /\ numbers = {}
  /\ po_pc = "off"
  /\ bc_po_value = NoneCell
  /\ cleaned = <<>>
  /\ split_out = <<>>
  /\ split_pc = "off"
  /\ excel_a = <<>>
  /\ excel_b = <<>>
  /\ df_a = <<>>
  /\ df_a_expanded = <<>>
  /\ duplicates = {}
  /\ b_po_set = {}
  /\ matched = <<>>
  /\ unmatched = <<>>
  /\ result = <<>>
  /\ tool_pc = "off"
  /\ row_a = [eta |-> NanVal, container |-> NanContainer]
  /\ row_b = [eta |-> NanVal, container |-> NanContainer]
  /\ differences = {}
  /\ filtered_differences = {}
  /\ rows_pc = "off"
  /\ file_a = <<>>
  /\ file_b = <<>>
  /\ df_a_clean = <<>>
  /\ po_map_a = <<>>
  /\ po_set_b = {}
  /\ matched_differences = <<>>
  /\ unmatched_pos = <<>>
  /\ compared = <<>>
  /\ bu_i = 0
  /\ bu_pc = "off"
  /\ bc_file \in BcFiles
  /\ imp_file \in Workbooks
  /\ bc_df = <<>>
  /\ rows = <<>>
  /\ imp_df = <<>>
  /\ merged = <<>>
  /\ mismatches = <<>>
  /\ missing = <<>>
  /\ tol = 0
  /\ eta_i = 0
  /\ eta_pc = "start"
  /\ tri_a = <<>>
  /\ tri_b = <<>>
  /\ matched_pos = {}
  /\ unmatched_a_pos = {}
  /\ tri_todo = {}
  /\ eta_diffs = <<>>
  /\ vessel_diffs = <<>>
  /\ container_diffs = <<>>
  /\ results = [eta_diffs |-> <<>>]
  /\ tri_pc = "off"
  /\ sheet_names_b = <<>>
  /\ sheet_page = "off"
  /\ latest_date = <<>>
  /\ latest_sheet = <<>>
  /\ date_sheets = <<>>
  /\ used_sheet = <<>>
  /\ sh_i = 0
  /\ sh_pc = "off"
  /\ pg_page = "off"
  /\ pg_row_a = [eta |-> NanVal]
  /\ pg_row_b = [eta |-> NanVal]
  /\ pg_differences = {}
  /\ pg_filtered = {}
  /\ pg_pc = "off"
  /\ unique_port_codes = <<>>
  /\ countries = <<>>
  /\ stored_ports = {}
  /\ country_map = <<>>
  /\ data_to_insert = <<>>
  /\ ports_without_country = <<>>
  /\ upserts = <<>>
  /\ up_result = [success |-> FALSE]
  /\ up_i = 0
  /\ up_pc = "off"

TriInit ==
  /\ ref_str = NanCell
  /\ numbers = {}
  /\ po_pc = "off"
  /\ bc_po_value = NoneCell
  /\ cleaned = <<>>
  /\ split_out = <<>>
  /\ split_pc = "off"
  /\ excel_a = <<>>
  /\ excel_b = <<>>
  /\ df_a = <<>>
  /\ df_a_expanded = <<>>
  /\ duplicates = {}
  /\ b_po_set = {}
  /\ matched = <<>>
  /\ unmatched = <<>>
  /\ result = <<>>
  /\ tool_pc = "off"
  /\ row_a = [eta |-> NanVal, container |-> NanContainer]
  /\ row_b = [eta |-> NanVal, container |-> NanContainer]
  /\ differences = {}
  /\ filtered_differences = {}
  /\ rows_pc = "off"
  /\ file_a = <<>>
  /\ file_b = <<>>
  /\ df_a_clean = <<>>
  /\ po_map_a = <<>>
  /\ po_set_b = {}
  /\ matched_differences = <<>>
  /\ unmatched_pos = <<>>
  /\ compared = <<>>
  /\ bu_i = 0
  /\ bu_pc = "off"
  /\ bc_file = <<>>
  /\ imp_file = <<>>
  /\ bc_df = <<>>
  /\ rows = <<>>
  /\ imp_df = <<>>
  /\ merged = <<>>
  /\ mismatches = <<>>
  /\ missing = <<>>
  /\ tol = 0
  /\ eta_i = 0
  /\ eta_pc = "off"
  /\ tri_a \in TriFrames(TriFieldsA)
  /\ tri_b \in TriFrames(TriFieldsB)
  /\ matched_pos = {}
  /\ unmatched_a_pos = {}
  /\ tri_todo = {}
  /\ eta_diffs = <<>>
  /\ vessel_diffs = <<>>
  /\ container_diffs = <<>>
  /\ results = [eta_diffs |-> <<>>]
  /\ tri_pc = "start"
  /\ sheet_names_b = <<>>
  /\ sheet_page = "off"
  /\ latest_date = <<>>
  /\ latest_sheet = <<>>
  /\ date_sheets = <<>>
  /\ used_sheet = <<>>
  /\ sh_i = 0
  /\ sh_pc = "off"
  /\ pg_page = "off"
  /\ pg_row_a = [eta |-> NanVal]
  /\ pg_row_b = [eta |-> NanVal]
  /\ pg_differences = {}
  /\ pg_filtered = {}
  /\ pg_pc = "off"
  /\ unique_port_codes = <<>>
  /\ countries = <<>>
  /\ stored_ports = {}
  /\ country_map = <<>>
  /\ data_to_insert = <<>>
  /\ ports_without_country = <<>>
  /\ upserts = <<>>
  /\ up_result = [success |-> FALSE]
  /\ up_i = 0
  /\ up_pc = "off"

SheetsInit ==
  /\ ref_str = NanCell
  /\ numbers = {}
  /\ po_pc = "off"
  /\ bc_po_value = NoneCell
  /\ cleaned = <<>>
  /\ split_out = <<>>
  /\ split_pc = "off"
  /\ excel_a = <<>>
  /\ excel_b = <<>>
  /\ df_a = <<>>
  /\ df_a_expanded = <<>>
  /\ duplicates = {}
  /\ b_po_set = {}
  /\ matched = <<>>
  /\ unmatched = <<>>
  /\ result = <<>>
  /\ tool_pc = "off"
  /\ row_a = [eta |-> NanVal, container |-> NanContainer]
  /\ row_b = [eta |-> NanVal, container |-> NanContainer]
  /\ differences = {}
  /\ filtered_differences = {}
  /\ rows_pc = "off"
  /\ file_a = <<>>
  /\ file_b = <<>>
  /\ df_a_clean = <<>>
  /\ po_map_a = <<>>
  /\ po_set_b = {}
  /\ matched_differences = <<>>
  /\ unmatched_pos = <<>>
  /\ compared = <<>>
  /\ bu_i = 0
  /\ bu_pc = "off"
  /\ bc_file = <<>>
  /\ imp_file = <<>>
  /\ bc_df = <<>>
  /\ rows = <<>>
  /\ imp_df = <<>>
  /\ merged = <<>>
  /\ mismatches = <<>>
  /\ missing = <<>>
  /\ tol = 0
  /\ eta_i = 0
  /\ eta_pc = "off"
  /\ tri_a = <<>>
  /\ tri_b = <<>>
  /\ matched_pos = {}
  /\ unmatched_a_pos = {}
  /\ tri_todo = {}
  /\ eta_diffs = <<>>
  /\ vessel_diffs = <<>>
  /\ container_diffs = <<>>
  /\ results = [eta_diffs |-> <<>>]
  /\ tri_pc = "off"
  /\ sheet_names_b \in SheetNameLists
  /\ sheet_page \in SheetPages
  /\ latest_date = <<>>
  /\ latest_sheet = <<>>
  /\ date_sheets = <<>>
  /\ used_sheet = <<>>
  /\ sh_i = 1
  /\ sh_pc = "scan"
  /\ pg_page = "off"
  /\ pg_row_a = [eta |-> NanVal]
  /\ pg_row_b = [eta |-> NanVal]
  /\ pg_differences = {}
  /\ pg_filtered = {}
  /\ pg_pc = "off"
  /\ unique_port_codes = <<>>
  /\ countries = <<>>
  /\ stored_ports = {}
  /\ country_map = <<>>
  /\ data_to_insert = <<>>
  /\ ports_without_country = <<>>
  /\ upserts = <<>>
  /\ up_result = [success |-> FALSE]
  /\ up_i = 0
  /\ up_pc = "off"

PagesInit ==
  /\ ref_str = NanCell
  /\ numbers = {}
  /\ po_pc = "off"
  /\ bc_po_value = NoneCell
  /\ cleaned = <<>>
  /\ split_out = <<>>
  /\ split_pc = "off"
  /\ excel_a = <<>>
  /\ excel_b = <<>>
  /\ df_a = <<>>
  /\ df_a_expanded = <<>>
  /\ duplicates = {}
  /\ b_po_set = {}
  /\ matched = <<>>
  /\ unmatched = <<>>
  /\ result = <<>>
  /\ tool_pc = "off"
  /\ row_a = [eta |-> NanVal, container |-> NanContainer]
  /\ row_b = [eta |-> NanVal, container |-> NanContainer]
  /\ differences = {}
  /\ filtered_differences = {}
  /\ rows_pc = "off"
  /\ file_a = <<>>
  /\ file_b = <<>>
  /\ df_a_clean = <<>>
  /\ po_map_a = <<>>
  /\ po_set_b = {}
  /\ matched_differences = <<>>
  /\ unmatched_pos = <<>>
  /\ compared = <<>>
  /\ bu_i = 0
  /\ bu_pc = "off"
  /\ bc_file = <<>>
  /\ imp_file = <<>>
  /\ bc_df = <<>>
  /\ rows = <<>>
  /\ imp_df = <<>>
  /\ merged = <<>>
  /\ mismatches = <<>>
  /\ missing = <<>>
  /\ tol = 0
  /\ eta_i = 0
  /\ eta_pc = "off"
  /\ tri_a = <<>>
  /\ tri_b = <<>>
  /\ matched_pos = {}
  /\ unmatched_a_pos = {}
  /\ tri_todo = {}
  /\ eta_diffs = <<>>
  /\ vessel_diffs = <<>>
  /\ container_diffs = <<>>
  /\ results = [eta_diffs |-> <<>>]
  /\ tri_pc = "off"
  /\ sheet_names_b = <<>>
  /\ sheet_page = "off"
  /\ latest_date = <<>>
  /\ latest_sheet = <<>>
  /\ date_sheets = <<>>
  /\ used_sheet = <<>>
  /\ sh_i = 0
  /\ sh_pc = "off"
  /\ pg_page \in PagesOfRows
  /\ pg_row_a \in PagesRowsA
  /\ pg_row_b \in PagesRowsB
  /\ pg_differences = {}
  /\ pg_filtered = {}
  /\ pg_pc = "start"
  /\ unique_port_codes = <<>>
  /\ countries = <<>>
  /\ stored_ports = {}
  /\ country_map = <<>>
  /\ data_to_insert = <<>>
  /\ ports_without_country = <<>>
  /\ upserts = <<>>
  /\ up_result = [success |-> FALSE]
  /\ up_i = 0
  /\ up_pc = "off"

UploadInit ==
  /\ ref_str = NanCell
  /\ numbers = {}
  /\ po_pc = "off"
  /\ bc_po_value = NoneCell
  /\ cleaned = <<>>
  /\ split_out = <<>>
  /\ split_pc = "off"
  /\ excel_a = <<>>
  /\ excel_b = <<>>
  /\ df_a = <<>>
  /\ df_a_expanded = <<>>
  /\ duplicates = {}
  /\ b_po_set = {}
  /\ matched = <<>>
  /\ unmatched = <<>>
  /\ result = <<>>
  /\ tool_pc = "off"
  /\ row_a = [eta |-> NanVal, container |-> NanContainer]
  /\ row_b = [eta |-> NanVal, container |-> NanContainer]
  /\ differences = {}
  /\ filtered_differences = {}
  /\ rows_pc = "off"
  /\ file_a = <<>>
  /\ file_b = <<>>
  /\ df_a_clean = <<>>
  /\ po_map_a = <<>>
  /\ po_set_b = {}
  /\ matched_differences = <<>>
  /\ unmatched_pos = <<>>
  /\ compared = <<>>
  /\ bu_i = 0
  /\ bu_pc = "off"
  /\ bc_file = <<>>
  /\ imp_file = <<>>
  /\ bc_df = <<>>
  /\ rows = <<>>
  /\ imp_df = <<>>
  /\ merged = <<>>
  /\ mismatches = <<>>
  /\ missing = <<>>
  /\ tol = 0
  /\ eta_i = 0
  /\ eta_pc = "off"
  /\ tri_a = <<>>
  /\ tri_b = <<>>
  /\ matched_pos = {}
  /\ unmatched_a_pos = {}
  /\ tri_todo = {}
  /\ eta_diffs = <<>>
  /\ vessel_diffs = <<>>
  /\ container_diffs = <<>>
  /\ results = [eta_diffs |-> <<>>]
  /\ tri_pc = "off"
  /\ sheet_names_b = <<>>
  /\ sheet_page = "off"
  /\ latest_date = <<>>
  /\ latest_sheet = <<>>
  /\ date_sheets = <<>>
  /\ used_sheet = <<>>
  /\ sh_i = 0
  /\ sh_pc = "off"
  /\ pg_page = "off"
  /\ pg_row_a = [eta |-> NanVal]
  /\ pg_row_b = [eta |-> NanVal]
  /\ pg_differences = {}
  /\ pg_filtered = {}
  /\ pg_pc = "off"
  /\ unique_port_codes \in PortCodeLists
  /\ countries \in CountryTables
  /\ stored_ports \in StoredPortSets
  /\ country_map = <<>>
  /\ data_to_insert = <<>>
  /\ ports_without_country = <<>>
  /\ upserts = <<>>
  /\ up_result = [success |-> FALSE]
  /\ up_i = 1
  /\ up_pc = "fetch"

\* ------------------------------------------------ extract_po_numbers run
\* extract_po_numbers run on one 'All References' cell, loop by loop.
\* if not isinstance(ref_str, str): return []
ExtractNotStr ==
  /\ po_pc = "start"
  /\ ref_str.kind # "str"
  /\ po_pc' = "done"
  /\ UNCHANGED <<ref_str, numbers, notPO>>

ExtractRanges ==
  /\ po_pc = "start"
  /\ ref_str.kind = "str"
  /\ numbers' = numbers \cup RangeScan(ref_str.text, 1)
  /\ po_pc' = "groups"
  /\ UNCHANGED <<ref_str, notPO>>

ExtractGroups ==
  /\ po_pc = "groups"
  /\ LET groups == SplitOn(ref_str.text, {"/", ","})
     IN numbers' = numbers \cup UNION {GroupNumbers(groups[g]) : g \in 1..Len(groups)}
  /\ po_pc' = "suffixes"
  /\ UNCHANGED <<ref_str, notPO>>

ExtractSuffixes ==
  /\ po_pc = "suffixes"
  /\ numbers' = numbers \cup SuffixScan(ref_str.text, 1)
  /\ po_pc' = "done"
  /\ UNCHANGED <<ref_str, notPO>>

PONext == ExtractNotStr \/ ExtractRanges \/ ExtractGroups \/ ExtractSuffixes

\* ------------------------------------------------- split_bc_po_value run
\* if value is None: return []
SplitNone ==
  /\ split_pc = "start"
  /\ bc_po_value.kind = "none"
  /\ split_pc' = "done"
  /\ UNCHANGED <<bc_po_value, cleaned, split_out, notSplit>>

\* text = str(value); cleaned = re.sub(...)
SplitClean ==
  /\ split_pc = "start"
  /\ bc_po_value.kind # "none"
  /\ cleaned' = StripParens(bc_po_value.text, 1)
  /\ split_pc' = "cleaned"
  /\ UNCHANGED <<bc_po_value, split_out, notSplit>>

\* if "/" in cleaned: one PO for each part that has one
SplitSlashes ==
  /\ split_pc = "cleaned"
  /\ HasSlash(cleaned)
  /\ split_out' = PartsResult(StrippedParts(SplitOn(cleaned, {"/"})))
  /\ split_pc' = "done"
  /\ UNCHANGED <<bc_po_value, cleaned, notSplit>>

\* otherwise the first six-digit number of the cleaned text
SplitFirst ==
  /\ split_pc = "cleaned"
  /\ ~HasSlash(cleaned)
  /\ split_out' = SearchSixDigit(cleaned, 1)
  /\ split_pc' = "done"
  /\ UNCHANGED <<bc_po_value, cleaned, notSplit>>

SplitNext == SplitNone \/ SplitClean \/ SplitSlashes \/ SplitFirst

\* --------------------------------------------------- comparation_tool run
\* df_a = df_a[df_a['Estimated Arrival'].apply(is_valid_date)]
ToolClean ==
  /\ tool_pc = "read"
  /\ df_a' = FilterIdx(Len(excel_a), LAMBDA i : is_valid_date(excel_a[i].arrival))
  /\ tool_pc' = "cleaned"
  /\ UNCHANGED <<excel_a, excel_b, df_a_expanded, duplicates, b_po_set, matched,
                 unmatched, result, notTool>>

\* 'Extracted PO', explode, notnull
ToolExtract ==
  /\ tool_pc = "cleaned"
  /\ df_a_expanded' = Explode(excel_a, df_a)
  /\ tool_pc' = "expanded"
  /\ UNCHANGED <<excel_a, excel_b, df_a, duplicates, b_po_set, matched,
                 unmatched, result, notTool>>

\* po_counts = value_counts(); duplicates = po_counts[po_counts > 1]
ToolCount ==
  /\ tool_pc = "expanded"
  /\ duplicates' =
       {[po |-> df_a_expanded[k].po, count |-> ValueCount(df_a_expanded, df_a_expanded[k].po)] :
          k \in {j \in 1..Len(df_a_expanded) :
                   ValueCount(df_a_expanded, df_a_expanded[j].po) > 1}}
  /\ tool_pc' = "counted"
  /\ UNCHANGED <<excel_a, excel_b, df_a, df_a_expanded, b_po_set, matched,
                 unmatched, result, notTool>>

\* b_po_set = set(df_b['BC PO'].astype(str)); 'Match'; matched; unmatched
ToolMatch ==
  /\ tool_pc = "counted"
  /\ b_po_set' = {excel_b[k].text : k \in 1..Len(excel_b)}
  /\ matched' = FilterSeq(df_a_expanded, LAMBDA r : r.po \in b_po_set')
  /\ unmatched' = FilterSeq(df_a_expanded, LAMBDA r : r.po \notin b_po_set')
  /\ tool_pc' = "matched"
  /\ UNCHANGED <<excel_a, excel_b, df_a, df_a_expanded, duplicates, result, notTool>>

\* result = DataFrame({'PO': ..., 'Matched': ...}) for the download
ToolResult ==
  /\ tool_pc = "matched"
  /\ result' = [k \in 1..Len(df_a_expanded) |->
                  [PO |-> df_a_expanded[k].po,
                   Matched |-> df_a_expanded[k].po \in b_po_set]]
  /\ tool_pc' = "done"
  /\ UNCHANGED <<excel_a, excel_b, df_a, df_a_expanded, duplicates, b_po_set,
                 matched, unmatched, notTool>>

ToolNext == ToolClean \/ ToolExtract \/ ToolCount \/ ToolMatch \/ ToolResult

\* ------------------------------------------------------- compare_rows run
\* The loop over the columns.
RowsCompare ==
  /\ rows_pc = "start"
  /\ differences' = RowDifferences(row_a, row_b)
  /\ rows_pc' = "compared"
  /\ UNCHANGED <<row_a, row_b, filtered_differences, notRows>>

\* The rules; return filtered_differences.
RowsFilter ==
  /\ rows_pc = "compared"
  /\ filtered_differences' = FilterDifferences(differences)
  /\ rows_pc' = "done"
  /\ UNCHANGED <<row_a, row_b, differences, notRows>>

RowsNext == RowsCompare \/ RowsFilter

\* --------------------------------------------- burnard_shipment_check run
\* df_a["ETA"] = pd.to_datetime(..., errors="coerce"); dropna(subset=["ETA"])
BurnardClean ==
  /\ bu_pc = "read"
  /\ df_a_clean' = FilterIdx(Len(file_a), LAMBDA i : ~to_datetime(file_a[i].eta).nat)
  /\ bu_pc' = "cleaned"
  /\ UNCHANGED <<file_a, file_b, po_map_a, po_set_b, matched_differences,
                 unmatched_pos, compared, bu_i, notBurnard>>

\* po_map_a
BurnardMapA ==
  /\ bu_pc = "cleaned"
  /\ po_map_a' = BuildPoMap(<<>>, file_a, df_a_clean)
  /\ bu_pc' = "mapped"
  /\ UNCHANGED <<file_a, file_b, df_a_clean, po_set_b, matched_differences,
                 unmatched_pos, compared, bu_i, notBurnard>>

\* po_set_b
BurnardSetB ==
  /\ bu_pc = "mapped"
  /\ po_set_b' =
       UNION {{burnard_extract_po_numbers(file_b[k].bc_po)[j] :
                 j \in 1..Len(burnard_extract_po_numbers(file_b[k].bc_po))} :
              k \in 1..Len(file_b)}
  /\ bu_i' = 1
  /\ bu_pc' = "loop"
  /\ UNCHANGED <<file_a, file_b, df_a_clean, po_map_a, matched_differences,
                 unmatched_pos, compared, notBurnard>>

\* The row of Excel A as compare_rows gets it: its ETA is the timestamp
\* that line 337 stored.
CleanRowA(i) ==
  [eta |-> TsVal(to_datetime(file_a[i].eta).day, to_datetime(file_a[i].eta).tod),
   container |-> file_a[i].container]

\* One PO of the loop of line 357 that is in po_set_b.
BurnardCompare ==
  /\ bu_pc = "loop"
  /\ bu_i <= Len(po_map_a)
  /\ po_map_a[bu_i].po \in po_set_b
  /\ LET po == po_map_a[bu_i].po
         match_rows_b == MatchRowsB(file_b, po)
     IN IF match_rows_b # <<>>
        THEN LET row_b_idx == match_rows_b[1]
                 diffs == compare_rows(
                            CleanRowA(po_map_a[bu_i].row),
                            [eta |-> file_b[row_b_idx].eta,
                             container |-> file_b[row_b_idx].container])
             IN /\ compared' = Append(compared, [po |-> po, row_b |-> row_b_idx])
                /\ matched_differences' =
                     IF diffs # {}
                     THEN Append(matched_differences, [PO |-> po, Differences |-> diffs])
                     ELSE matched_differences
        ELSE UNCHANGED <<compared, matched_differences>>
  /\ bu_i' = bu_i + 1
  /\ UNCHANGED <<file_a, file_b, df_a_clean, po_map_a, po_set_b, unmatched_pos,
                 bu_pc, notBurnard>>

\* One PO of the loop that is not in po_set_b.
BurnardUnmatched ==
  /\ bu_pc = "loop"
  /\ bu_i <= Len(po_map_a)
  /\ po_map_a[bu_i].po \notin po_set_b
  /\ unmatched_pos' = Append(unmatched_pos, po_map_a[bu_i].po)
  /\ bu_i' = bu_i + 1
  /\ UNCHANGED <<file_a, file_b, df_a_clean, po_map_a, po_set_b,
                 matched_differences, compared, bu_pc, notBurnard>>

\* The loop is over: the results are shown.
BurnardShow ==
  /\ bu_pc = "loop"
  /\ bu_i > Len(po_map_a)
  /\ bu_pc' = "done"
  /\ UNCHANGED <<file_a, file_b, df_a_clean, po_map_a, po_set_b,
                 matched_differences, unmatched_pos, compared, bu_i, notBurnard>>

BurnardNext ==
  \/ BurnardClean \/ BurnardMapA \/ BurnardSetB
  \/ BurnardCompare \/ BurnardUnmatched \/ BurnardShow

\* ---------------------------------------------------- eta_discrepancy run
\* bc_df = load_bc_df(bc_file.getvalue())
EtaLoadBc ==
  /\ eta_pc = "start"
  /\ bc_df' = LoadBcRows(bc_file, 1)
  /\ eta_i' = 1
  /\ eta_pc' = "sheets"
  /\ UNCHANGED <<bc_file, imp_file, rows, imp_df, merged, mismatches, missing,
                 tol, notEta>>

\* load_import_df: a sheet that is empty or lacks a column is passed over.
EtaSkipSheet ==
  /\ eta_pc = "sheets"
  /\ eta_i <= Len(imp_file)
  /\ ~SheetUsable(imp_file[eta_i])
  /\ eta_i' = eta_i + 1
  /\ UNCHANGED <<bc_file, imp_file, bc_df, rows, imp_df, merged, mismatches,
                 missing, tol, eta_pc, notEta>>

\* load_import_df: the records of one sheet are added to rows.
EtaReadSheet ==
  /\ eta_pc = "sheets"
  /\ eta_i <= Len(imp_file)
  /\ SheetUsable(imp_file[eta_i])
  /\ rows' = rows \o SheetRecords(imp_file[eta_i].rows, SheetNames[eta_i])
  /\ eta_i' = eta_i + 1
  /\ UNCHANGED <<bc_file, imp_file, bc_df, imp_df, merged, mismatches, missing,
                 tol, eta_pc, notEta>>

\* load_import_df: if not rows: raise ValueError; the page stops.
EtaLoadFail ==
  /\ eta_pc = "sheets"
  /\ eta_i > Len(imp_file)
  /\ rows = <<>>
  /\ eta_pc' = "failed"
  /\ UNCHANGED <<bc_file, imp_file, bc_df, rows, imp_df, merged, mismatches,
                 missing, tol, eta_i, notEta>>

\* load_import_df: the last record of each PO is returned.
EtaKeepLast ==
  /\ eta_pc = "sheets"
  /\ eta_i > Len(imp_file)
  /\ rows # <<>>
  /\ imp_df' = KeepLast(rows)
  /\ eta_pc' = "loaded"
  /\ UNCHANGED <<bc_file, imp_file, bc_df, rows, merged, mismatches, missing,
                 tol, eta_i, notEta>>

\* merged, mismatches, missing = compare(bc_df, imp_df, tolerance_days=tol)
EtaCompare ==
  /\ eta_pc = "loaded"
  /\ \E t \in Tolerances :
       /\ tol' = t
       /\ merged' = MergeLeft(bc_df, imp_df)
       /\ mismatches' = FilterSeq(merged', LAMBDA m : IsMismatch(m, t))
       /\ missing' = MissingColumns(FilterSeq(merged', IsMissing))
  /\ eta_pc' = "done"
  /\ UNCHANGED <<bc_file, imp_file, bc_df, rows, imp_df, eta_i, notEta>>

EtaNext ==
  \/ EtaLoadBc \/ EtaSkipSheet \/ EtaReadSheet \/ EtaLoadFail \/ EtaKeepLast
  \/ EtaCompare

\* ------------------------------------- tri-star compare_dataframes run
\* matched_pos, unmatched_a_pos (lines 286-298)
TriMatch ==
  /\ tri_pc = "start"
  /\ matched_pos' = POsOf(tri_a) \cap POsOf(tri_b)
  /\ unmatched_a_pos' = POsOf(tri_a) \ POsOf(tri_b)
  /\ tri_todo' = POsOf(tri_a) \cap POsOf(tri_b)
  /\ tri_pc' = "loop"
  /\ UNCHANGED <<tri_a, tri_b, eta_diffs, vessel_diffs, container_diffs,
                 results, notTri>>

\* One pass of the loop over matched_pos (lines 300-374); the order of a
\* list made from a set is any order.
TriComparePO ==
  /\ tri_pc = "loop"
  /\ \E po \in tri_todo :
       LET tri_row_a == RowOf(tri_a, po)
           tri_row_b == RowOf(tri_b, po)
           reason == ContainerReason(tri_row_a, tri_row_b)
       IN /\ eta_diffs' =
               IF EtaStr(tri_row_a.eta) # EtaStr(tri_row_b.eta)
               THEN Append(eta_diffs, [PO |-> po, A_ETA |-> tri_row_a.eta,
                                       B_ETA |-> tri_row_b.eta])
               ELSE eta_diffs
          /\ vessel_diffs' =
               IF VesselOrVoyageDiffers(tri_row_a, tri_row_b)
               THEN Append(vessel_diffs,
                           [PO |-> po, A_Vessel |-> tri_row_a.vessel,
                            A_Voyage |-> tri_row_a.voyage, B_Vessel |-> tri_row_b.vessel,
                            B_Voyage |-> tri_row_b.voyage])
               ELSE vessel_diffs
          /\ container_diffs' =
               IF reason # ""
               THEN Append(container_diffs,
                           [PO |-> po, A_Container |-> tri_row_a.container,
                            B_Container |-> tri_row_b.container, Reason |-> reason])
               ELSE container_diffs
          /\ tri_todo' = tri_todo \ {po}
  /\ UNCHANGED <<tri_a, tri_b, matched_pos, unmatched_a_pos, results, tri_pc,
                 notTri>>

\* The returned dictionary (lines 376-380).
TriReturn ==
  /\ tri_pc = "loop"
  /\ tri_todo = {}
  /\ results' =
       [eta_diffs |-> eta_diffs,
        unmatched_a |->
          LET rows_u == FilterSeq(tri_a, LAMBDA r : r.PO_Clean \in unmatched_a_pos)
          IN [k \in 1..Len(rows_u) |->
                [Unmatched_PO |-> rows_u[k].PO_Clean, ETA |-> rows_u[k].eta,
                 Container |-> rows_u[k].container]],
        container_diffs |-> container_diffs]
  /\ tri_pc' = "done"
  /\ UNCHANGED <<tri_a, tri_b, matched_pos, unmatched_a_pos, tri_todo, eta_diffs,
                 vessel_diffs, container_diffs, notTri>>

TriNext == TriMatch \/ TriComparePO \/ TriReturn

\* ------------------------------------------------- sheet selection run
\* burnard, dhl: one pass of 'for sheet in sheet_names_b'.
SheetsScan ==
  /\ sh_pc = "scan" /\ sheet_page \in {"burnard", "dhl"}
  /\ sh_i <= Len(sheet_names_b)
  /\ LET date_obj == SheetDate(sheet_page, sheet_names_b[sh_i])
     IN IF date_obj # <<>> /\ (latest_date = <<>> \/ DateLater(date_obj, latest_date))
        THEN latest_date' = date_obj /\ latest_sheet' = sheet_names_b[sh_i]
        ELSE UNCHANGED <<latest_date, latest_sheet>>
  /\ sh_i' = sh_i + 1
  /\ UNCHANGED <<sheet_names_b, sheet_page, date_sheets, used_sheet, sh_pc, notSheets>>

\* burnard, dhl: if latest_sheet: the most recent sheet is read.
SheetsUseLatest ==
  /\ sh_pc = "scan" /\ sheet_page \in {"burnard", "dhl"}
  /\ sh_i > Len(sheet_names_b)
  /\ latest_sheet # <<>>
  /\ used_sheet' = latest_sheet
  /\ sh_pc' = "done"
  /\ UNCHANGED <<sheet_names_b, sheet_page, latest_date, latest_sheet, date_sheets,
                 sh_i, notSheets>>

\* burnard, dhl: else: the last sheet is read.
SheetsUseLast ==
  /\ sh_pc = "scan" /\ sheet_page \in {"burnard", "dhl"}
  /\ sh_i > Len(sheet_names_b)
  /\ latest_sheet = <<>>
  /\ used_sheet' = sheet_names_b[Len(sheet_names_b)]
  /\ sh_pc' = "done"
  /\ UNCHANGED <<sheet_names_b, sheet_page, latest_date, latest_sheet, date_sheets,
                 sh_i, notSheets>>

\* get_latest_import_sheet: one pass of 'for name, df in sheet_dfs.items()'.
LatestSheetScan ==
  /\ sh_pc = "scan" /\ sheet_page = "tri-star"
  /\ sh_i <= Len(sheet_names_b)
  /\ LET date_obj == SheetDate(sheet_page, sheet_names_b[sh_i])
     IN date_sheets' =
          IF date_obj # <<>>
          THEN Append(date_sheets, [name |-> sheet_names_b[sh_i], date |-> date_obj])
          ELSE date_sheets
  /\ sh_i' = sh_i + 1
  /\ UNCHANGED <<sheet_names_b, sheet_page, latest_date, latest_sheet, used_sheet,
                 sh_pc, notSheets>>

\* get_latest_import_sheet: if date_sheets: the sheet of the latest date.
LatestSheetMax ==
  /\ sh_pc = "scan" /\ sheet_page = "tri-star"
  /\ sh_i > Len(sheet_names_b)
  /\ date_sheets # <<>>
  /\ used_sheet' = MaxDateSheet(date_sheets).name
  /\ sh_pc' = "done"
  /\ UNCHANGED <<sheet_names_b, sheet_page, latest_date, latest_sheet, date_sheets,
                 sh_i, notSheets>>

\* get_latest_import_sheet: the fallback, the last sheet.
LatestSheetLast ==
  /\ sh_pc = "scan" /\ sheet_page = "tri-star"
  /\ sh_i > Len(sheet_names_b)
  /\ date_sheets = <<>>
  /\ used_sheet' = sheet_names_b[Len(sheet_names_b)]
  /\ sh_pc' = "done"
  /\ UNCHANGED <<sheet_names_b, sheet_page, latest_date, latest_sheet, date_sheets,
                 sh_i, notSheets>>

SheetsNext ==
  \/ SheetsScan \/ SheetsUseLatest \/ SheetsUseLast
  \/ LatestSheetScan \/ LatestSheetMax \/ LatestSheetLast

\* ------------------------------------------ compare_rows of the pages
\* pages/burnard_shipment_check.py compare_rows: the loop over the columns.
PagesCompare ==
  /\ pg_pc = "start" /\ pg_page = "burnard"
  /\ LET equal == pages_are_containers_equal(pg_row_a.container, pg_row_b.container)
     IN IF equal = "AttributeError"
        THEN /\ pg_differences' =
                  IF normalize_eta(pg_row_a.eta) # normalize_eta(pg_row_b.eta)
                  THEN {"ETA"} ELSE {}
             /\ pg_pc' = "raised"
        ELSE /\ pg_differences' = PagesRowDifferences(pg_row_a, pg_row_b, equal)
             /\ pg_pc' = "compared"
  /\ UNCHANGED <<pg_page, pg_row_a, pg_row_b, pg_filtered, notPages>>

\* pages/burnard_shipment_check.py compare_rows: the filtering rules.
PagesFilter ==
  /\ pg_pc = "compared" /\ pg_page = "burnard"
  /\ pg_filtered' = PagesFilterDifferences(pg_differences)
  /\ pg_pc' = "done"
  /\ UNCHANGED <<pg_page, pg_row_a, pg_row_b, pg_differences, notPages>>

\* pages/dhl_shipment_check.py compare_rows: the loop over the columns.
DhlCompare ==
  /\ pg_pc = "start" /\ pg_page = "dhl"
  /\ pg_differences' = DhlRowDifferences(pg_row_a, pg_row_b)
  /\ pg_pc' = "compared"
  /\ UNCHANGED <<pg_page, pg_row_a, pg_row_b, pg_filtered, notPages>>

\* pages/dhl_shipment_check.py compare_rows: the filtering rules.
DhlFilter ==
  /\ pg_pc = "compared" /\ pg_page = "dhl"
  /\ pg_filtered' = DhlFilterDifferences(pg_differences)
  /\ pg_pc' = "done"
  /\ UNCHANGED <<pg_page, pg_row_a, pg_row_b, pg_differences, notPages>>

PagesNext == PagesCompare \/ PagesFilter \/ DhlCompare \/ DhlFilter

\* ------------------------------------------------- upload_new_ports
\* Step 1 (lines 183-187): the countries are fetched and country_map built.
UploadFetchCountries ==
  /\ up_pc = "fetch"
  /\ country_map' = CountryMap(countries)
  /\ up_pc' = "prepare"
  /\ UNCHANGED <<unique_port_codes, countries, stored_ports, data_to_insert,
                 ports_without_country, upserts, up_result, up_i, notUpload>>

\* Step 1, the fetch raises (lines 188-195).
UploadFetchFail ==
  /\ up_pc = "fetch"
  /\ up_result' = [success |-> FALSE, inserted_count |-> 0,
                   attempted_codes |-> unique_port_codes]
  /\ up_pc' = "fetch_failed"
  /\ UNCHANGED <<unique_port_codes, countries, stored_ports, country_map,
                 data_to_insert, ports_without_country, upserts, up_i, notUpload>>

\* Step 2 (lines 200-213): one turn of the loop over unique_port_codes.
UploadPrepare ==
  /\ up_pc = "prepare" /\ up_i <= Len(unique_port_codes)
  /\ LET port_code == unique_port_codes[up_i]
     IN IF HasCountry(country_map, port_code)
        THEN /\ data_to_insert' =
                  Append(data_to_insert,
                         [port_code |-> port_code,
                          country_id |-> country_map[PortCountryCode(port_code)]])
             /\ UNCHANGED ports_without_country
        ELSE /\ ports_without_country' = Append(ports_without_country, port_code)
             /\ UNCHANGED data_to_insert
  /\ up_i' = up_i + 1
  /\ UNCHANGED <<unique_port_codes, countries, stored_ports, country_map,
                 upserts, up_result, up_pc, notUpload>>

\* Lines 217-225: nothing to insert.
UploadNothing ==
  /\ up_pc = "prepare" /\ up_i > Len(unique_port_codes)
  /\ data_to_insert = <<>>
  /\ up_result' = [success |-> TRUE, inserted_count |-> 0, inserted_codes |-> <<>>,
                   ports_without_country |-> ports_without_country]
  /\ up_pc' = "returned"
  /\ UNCHANGED <<unique_port_codes, countries, stored_ports, country_map,
                 data_to_insert, ports_without_country, upserts, up_i, notUpload>>

\* Step 3 (lines 228-248): the upsert succeeds.  response.data is what the
\* database answers: every row sent, or only the rows that were new.
UploadUpsert ==
  /\ up_pc = "prepare" /\ up_i > Len(unique_port_codes)
  /\ data_to_insert # <<>>
  /\ upserts' = Append(upserts, data_to_insert)
  /\ \E new_only \in BOOLEAN :
       LET sent == PortCodesOf(data_to_insert)
           inserted_codes ==
             IF new_only
             THEN SelectSeq(sent, LAMBDA code : code \notin stored_ports)
             ELSE sent
       IN up_result' = [success |-> TRUE, inserted_count |-> Len(inserted_codes),
                        inserted_codes |-> inserted_codes,
                        ports_without_country |-> ports_without_country]
  /\ up_pc' = "returned"
  /\ UNCHANGED <<unique_port_codes, countries, stored_ports, country_map,
                 data_to_insert, ports_without_country, up_i, notUpload>>

\* Step 3, the upsert raises (lines 250-257): the rows were sent.
UploadUpsertFail ==
  /\ up_pc = "prepare" /\ up_i > Len(unique_port_codes)
  /\ data_to_insert # <<>>
  /\ upserts' = Append(upserts, data_to_insert)
  /\ up_result' = [success |-> FALSE, inserted_count |-> 0,
                   attempted_codes |-> PortCodesOf(data_to_insert)]
  /\ up_pc' = "upsert_failed"
  /\ UNCHANGED <<unique_port_codes, countries, stored_ports, country_map,
                 data_to_insert, ports_without_country, up_i, notUpload>>

UploadNext ==
  \/ UploadFetchCountries \/ UploadFetchFail \/ UploadPrepare
  \/ UploadNothing \/ UploadUpsert \/ UploadUpsertFail

\* -------------------------------------------------------- specifications
SpecPO == POInit /\ [][PONext]_vars

SpecSplit == SplitInit /\ [][SplitNext]_vars

SpecTool == ToolInit /\ [][ToolNext]_vars

SpecRows == RowsInit /\ [][RowsNext]_vars

SpecBurnard == BurnardInit /\ [][BurnardNext]_vars

SpecEta == EtaInit /\ [][EtaNext]_vars

SpecTri == TriInit /\ [][TriNext]_vars

SpecSheets == SheetsInit /\ [][SheetsNext]_vars

SpecPages == PagesInit /\ [][PagesNext]_vars

SpecUpload == UploadInit /\ [][UploadNext]_vars

\* A text of exactly six decimal digits.
IsSixDigits(t) == Len(t) = 6 /\ DigitsAt(t, 1, 6)

\* C2: every PO identifier extract_po_numbers returns, range expansion
\* included, is a string of exactly six decimal digits.
C2_OnlySixDigitPOs ==
  po_pc = "done" => \A n \in numbers : IsSixDigits(n)

\* The cell is exactly 'PO' + six digits + '-' + two digits.
IsRangeRef(c) ==
  /\ c.kind = "str"
  /\ Len(c.text) = 11
  /\ Slice(c.text, 1, 2) = PO
  /\ DigitsAt(c.text, 3, 6)
  /\ c.text[9] = "-"
  /\ DigitsAt(c.text, 10, 2)

RangeB(c) == IntOf(Slice(c.text, 3, 6))
RangeE(c) == IntOf(Slice(c.text, 10, 2))

\* C5: for 'PO' + six digits b + '-' + two digits e with e >= b mod 100 the
\* function returns exactly the six-digit POs from b up to the number with
\* the first four digits of b and the last two digits e.
C5_RangeExact ==
  (po_pc = "done" /\ IsRangeRef(ref_str) /\ RangeE(ref_str) >= RangeB(ref_str) % 100)
  => numbers = {Pad(k, 6) : k \in RangeB(ref_str)..(RangeB(ref_str) - (RangeB(ref_str) % 100) + RangeE(ref_str))}

\* The same for a base without a leading zero, where str(int(b)) = b.
C5_RangeExactNoLeadingZero ==
  (po_pc = "done" /\ IsRangeRef(ref_str) /\ RangeE(ref_str) >= RangeB(ref_str) % 100
   /\ RangeB(ref_str) >= 100000)
  => numbers = {Pad(k, 6) : k \in RangeB(ref_str)..(RangeB(ref_str) - (RangeB(ref_str) % 100) + RangeE(ref_str))}

\* ----------------------------------------------------------- C6 and C7
\* The ")" that closes the "(" at position j, counting nesting (0: none).
RECURSIVE CloseFrom(_, _, _)
CloseFrom(s, i, depth) ==
  IF i > Len(s) THEN 0
  ELSE IF s[i] = ")" THEN (IF depth = 1 THEN i ELSE CloseFrom(s, i + 1, depth - 1))
  ELSE IF s[i] = "(" THEN CloseFrom(s, i + 1, depth + 1)
  ELSE CloseFrom(s, i + 1, depth)

\* Position i lies inside a parenthesised part of s.
InsideParens(s, i) ==
  \E j \in 1..(i - 1) : s[j] = "(" /\ CloseFrom(s, j + 1, 1) > i

\* The positions where po stands in s as a six-digit number.
NumberAt(s, po) ==
  {i \in 1..(Len(s) - Len(po) + 1) :
     Slice(s, i, Len(po)) = po /\ ~IsDigit(At(s, i - 1)) /\ ~IsDigit(At(s, i + Len(po)))}

\* C6: a six-digit number that occurs (only) inside a parenthesised part of
\* the 'BC PO' cell is never among the POs split_bc_po_value returns.
C6_ParenthesisedIgnored ==
  split_pc = "done" =>
    \A k \in 1..Len(split_out) :
      LET at == NumberAt(bc_po_value.text, split_out[k])
      IN at = {} \/ \E i \in at : ~InsideParens(bc_po_value.text, i)

\* No "(" of the text lies inside another parenthesised part.
NoNestedParens(s) ==
  \A i \in 1..Len(s) : s[i] = "(" => ~InsideParens(s, i)

\* The same for cells whose parentheses are not nested.
C6_ParenthesisedIgnoredFlat ==
  (split_pc = "done" /\ NoNestedParens(bc_po_value.text)) =>
    \A k \in 1..Len(split_out) :
      LET at == NumberAt(bc_po_value.text, split_out[k])
      IN at = {} \/ \E i \in at : ~InsideParens(bc_po_value.text, i)

\* t is the first six-digit number of the text p.
IsFirstSixDigit(p, t) ==
  \E i \in SixDigitStarts(p) :
    Slice(p, i, 6) = t /\ \A j \in SixDigitStarts(p) : i <= j

\* C7: split_bc_po_value returns only six-digit strings; with a "/" in the
\* cleaned cell it returns at most one PO for each slash-separated piece, in
\* the order of the pieces and keeping duplicates; without a "/" it returns
\* at most one PO, the first six-digit number of the cleaned text.
C7_SplitShape ==
  split_pc = "done" =>
    /\ \A k \in 1..Len(split_out) : IsSixDigits(split_out[k])
    /\ HasSlash(cleaned) =>
         LET pieces == SplitOn(cleaned, {"/"})
         IN \E f \in [1..Len(split_out) -> 1..Len(pieces)] :
              /\ \A k \in 1..Len(split_out) : IsFirstSixDigit(pieces[f[k]], split_out[k])
              /\ \A k \in 1..(Len(split_out) - 1) : f[k] < f[k + 1]
    /\ ~HasSlash(cleaned) =>
         IF SixDigitStarts(cleaned) = {} THEN split_out = <<>>
         ELSE Len(split_out) = 1 /\ IsFirstSixDigit(cleaned, split_out[1])

\* A cell with slashes that gave three POs, two of them the same.
C7_Witness ==
  /\ split_pc = "done"
  /\ HasSlash(cleaned)
  /\ Len(split_out) = 3
  /\ split_out[2] = split_out[3]
  /\ split_out[1] # split_out[2]

\* --------------------------------------------------------------------- C4
\* 'Estimated Arrival' is missing or no valid date.
InvalidArrival(val) == val.kind = "nan" \/ ~val.ok

\* The POs of the rows of Excel A whose 'Estimated Arrival' is valid.
ValidRowPOs ==
  UNION {extract_po_numbers(excel_a[i].refs) :
           i \in {j \in 1..Len(excel_a) : ~InvalidArrival(excel_a[j].arrival)}}

\* The POs extracted only from rows with a missing or invalid arrival.
OnlyInvalidRowPOs ==
  UNION {extract_po_numbers(excel_a[i].refs) :
           i \in {j \in 1..Len(excel_a) : InvalidArrival(excel_a[j].arrival)}}
  \ ValidRowPOs

\* The POs the page shows or offers for download.
ToolShownPOs ==
  {matched[k].po : k \in 1..Len(matched)}
  \cup {unmatched[k].po : k \in 1..Len(unmatched)}
  \cup {d.po : d \in duplicates}
  \cup {result[k].PO : k \in 1..Len(result)}

\* C4: rows of Excel A whose 'Estimated Arrival' is missing or not a valid
\* date are removed before extraction; no PO extracted only from such rows
\* is in the matched list, the unmatched list, the duplicate list or the
\* downloadable result.
C4_InvalidRowsDropped ==
  /\ tool_pc # "read" => \A k \in 1..Len(df_a) : ~InvalidArrival(excel_a[df_a[k]].arrival)
  /\ ToolShownPOs \cap OnlyInvalidRowPOs = {}

\* A finished run in which a dropped row had a PO of its own and a kept row
\* gave the lists their content.
C4_Witness ==
  /\ tool_pc = "done"
  /\ OnlyInvalidRowPOs # {}
  /\ Len(result) > 0
  /\ Len(df_a) < Len(excel_a)

\* -------------------------------------------------------------------- C12
\* The retained rows of Excel A from which a PO is extracted.
RetainedRowsWith(po) ==
  {i \in 1..Len(excel_a) :
     /\ ~InvalidArrival(excel_a[i].arrival)
     /\ po \in extract_po_numbers(excel_a[i].refs)}

AllRowPOs == UNION {extract_po_numbers(excel_a[i].refs) : i \in 1..Len(excel_a)}

ListedDuplicate(po) == \E d \in duplicates : d.po = po

Counted == tool_pc \in {"counted", "matched", "done"}

\* C12: a PO is listed under 'PO Numbers Appearing More Than Once in
\* Excel-A' if and only if it is extracted from at least two distinct
\* retained rows of Excel A, and it is listed with the number of those
\* rows; several mentions in one 'All References' cell count once.
C12_DuplicateIffTwoRows ==
  Counted =>
    /\ \A po \in AllRowPOs :
         ListedDuplicate(po) <=> Cardinality(RetainedRowsWith(po)) >= 2
    /\ \A d \in duplicates :
         /\ d.po \in AllRowPOs
         /\ d.count = Cardinality(RetainedRowsWith(d.po))

\* A PO stood twice in one cell and once in the cell of another retained
\* row and was listed with the count two; a PO of one row was not listed.
C12_Witness ==
  /\ tool_pc = "done"
  /\ \E d \in duplicates :
       /\ d.count = 2
       /\ \E i \in RetainedRowsWith(d.po) :
            Cardinality({k \in 1..Len(FindAllSixDigit(excel_a[i].refs.text)) :
                           FindAllSixDigit(excel_a[i].refs.text)[k] = d.po}) >= 2
  /\ \E po \in AllRowPOs : Cardinality(RetainedRowsWith(po)) = 1 /\ ~ListedDuplicate(po)

\* --------------------------------------------------------------------- C3
\* The calendar date of an ETA cell: none for a missing, empty or
\* unparseable value.
HasCalendarDate(val) == val.kind \notin {"nan", "empty"} /\ val.ok

SameCalendarDate(a, b) ==
  IF HasCalendarDate(a) /\ HasCalendarDate(b) THEN a.day = b.day
  ELSE ~HasCalendarDate(a) /\ ~HasCalendarDate(b)

\* C3: compare_rows compares the ETA by calendar date only.  It records an
\* ETA difference if and only if the two values, normalized to their date
\* (none for a missing, empty or unparseable value), differ; two timestamps
\* of the same day never give one, a date against no date always does.
C3_EtaByDateOnly ==
  rows_pc = "done" =>
    /\ ("ETA" \in filtered_differences) <=> ~SameCalendarDate(row_a.eta, row_b.eta)
    /\ ("ETA" \in filtered_differences)
         <=> (normalize_eta(row_a.eta) # normalize_eta(row_b.eta))
    /\ (HasCalendarDate(row_a.eta) /\ HasCalendarDate(row_b.eta)
        /\ row_a.eta.day = row_b.eta.day) => "ETA" \notin filtered_differences
    /\ (HasCalendarDate(row_a.eta) # HasCalendarDate(row_b.eta))
         => "ETA" \in filtered_differences
    /\ \A val \in {row_a.eta, row_b.eta} :
         normalize_eta(val) = IF HasCalendarDate(val) THEN Date(val.day) ELSE NoDate

\* Two timestamps of the same day with different times were compared, and
\* no ETA difference came out although the containers differed.
C3_Witness ==
  /\ rows_pc = "done"
  /\ row_a.eta.kind = "ts" /\ row_b.eta.kind = "ts"
  /\ row_a.eta.day = row_b.eta.day
  /\ row_a.eta.tod # row_b.eta.tod
  /\ filtered_differences = {"Container"}

\* --------------------------------------------------------------------- C1
\* The six-digit POs of the 'Order #' cells of the rows of Excel A that
\* have a valid ETA.
RetainedOrderPOs ==
  UNION {{FindAllSixDigit(file_a[i].order.text)[j] :
            j \in 1..Len(FindAllSixDigit(file_a[i].order.text))} :
         i \in {r \in 1..Len(file_a) :
                  file_a[r].order.kind # "nan" /\ HasCalendarDate(file_a[r].eta)}}

\* The six-digit POs of the 'BC PO' column of Excel B.
ImportDocPOs ==
  UNION {{FindAllSixDigit(file_b[k].bc_po.text)[j] :
            j \in 1..Len(FindAllSixDigit(file_b[k].bc_po.text))} :
         k \in {r \in 1..Len(file_b) : file_b[r].bc_po.kind # "nan"}}

\* C1: when the page is done, unmatched_pos holds exactly the distinct
\* six-digit POs of the 'Order #' cells of the retained (valid ETA) rows of
\* Excel A that are not among the POs of the 'BC PO' column of Excel B,
\* none of them twice; every PO of Excel A is either in unmatched_pos or
\* was compared against a row of Excel B, never both.
C1_UnmatchedExact ==
  bu_pc = "done" =>
    /\ {unmatched_pos[k] : k \in 1..Len(unmatched_pos)} = RetainedOrderPOs \ ImportDocPOs
    /\ \A j, k \in 1..Len(unmatched_pos) : unmatched_pos[j] = unmatched_pos[k] => j = k
    /\ \A po \in RetainedOrderPOs :
         (\E k \in 1..Len(unmatched_pos) : unmatched_pos[k] = po)
           # (\E k \in 1..Len(compared) : compared[k].po = po /\ compared[k].row_b \in 1..Len(file_b))

\* A finished run with an unmatched PO, a compared PO, and a PO that two
\* rows of Excel A carry.
C1_Witness ==
  /\ bu_pc = "done"
  /\ Len(unmatched_pos) > 0
  /\ Len(compared) > 0
  /\ \E i, j \in 1..Len(df_a_clean) :
       /\ i < j
       /\ \E po \in RetainedOrderPOs :
            /\ Contains(po, file_a[df_a_clean[i]].order.text)
            /\ Contains(po, file_a[df_a_clean[j]].order.text)
            /\ \E k \in 1..Len(unmatched_pos) : unmatched_pos[k] = po

\* --------------------------------------------------------------------- C8
\* An occurrence of a PO in the import workbook: sheet, row of the sheet,
\* position in the list split_bc_po_value gives for the row's 'BC PO' cell.
AllOccurrences ==
  UNION {UNION {{<<s, r, k>> :
                   k \in 1..Len(split_bc_po_value(imp_file[s].rows[r].bc_po))} :
                r \in 1..Len(imp_file[s].rows)} :
         s \in 1..Len(imp_file)}

\* The occurrences on sheets that have both a 'BC PO' and an 'Estimated
\* Arrival' column.
UsableOccurrences ==
  {o \in AllOccurrences : {"bc po", "estimated arrival"} \subseteq imp_file[o[1]].columns}

OccPO(o) == split_bc_po_value(imp_file[o[1]].rows[o[2]].bc_po)[o[3]]
OccEta(o) == imp_file[o[1]].rows[o[2]].eta
OccSheet(o) == SheetNames[o[1]]

\* Sheets in workbook order, then rows in sheet order, then positions.
OccBefore(o1, o2) ==
  \/ o1[1] < o2[1]
  \/ o1[1] = o2[1] /\ o1[2] < o2[2]
  \/ o1[1] = o2[1] /\ o1[2] = o2[2] /\ o1[3] < o2[3]

LastOccurrence(occ, po) ==
  CHOOSE o \in occ :
    /\ OccPO(o) = po
    /\ \A o2 \in occ : OccPO(o2) = po => (o2 = o \/ OccBefore(o2, o))

\* The date an ETA cell stands for: midnight of its day, NaT for none.
CalendarDate(val) == IF HasCalendarDate(val) THEN Timestamp(val.day, 0) ELSE NaT

\* imp_df has exactly one row for each PO of occ, carrying the date and
\* the sheet of the PO's last occurrence in occ, and no other row.
OneRowPerPO(occ) ==
  /\ \A po \in {OccPO(o) : o \in occ} :
       /\ Cardinality({k \in 1..Len(imp_df) : imp_df[k].PO_num = po}) = 1
       /\ \A k \in 1..Len(imp_df) :
            imp_df[k].PO_num = po =>
              /\ imp_df[k].imp_date = CalendarDate(OccEta(LastOccurrence(occ, po)))
              /\ imp_df[k].sheet = OccSheet(LastOccurrence(occ, po))
  /\ \A k \in 1..Len(imp_df) : imp_df[k].PO_num \in {OccPO(o) : o \in occ}

EtaLoaded == eta_pc \in {"loaded", "done"}

\* C8 as stated: load_import_df returns exactly one row for each PO that
\* occurs anywhere in the import workbook, carrying the ETA and the sheet
\* name of the PO's last occurrence (sheets, then rows, then positions).
C8_OneRowPerWorkbookPO == EtaLoaded => OneRowPerPO(AllOccurrences)

\* C8 amended: load_import_df returns exactly one row for each PO that
\* split_bc_po_value yields from a 'BC PO' cell of a sheet that has both a
\* 'BC PO' and an 'Estimated Arrival' column, carrying the ETA's date (NaT
\* for a missing ETA) and the sheet name of the last such occurrence.
C8_OneRowPerUsablePO == EtaLoaded => OneRowPerPO(UsableOccurrences)

\* A PO occurred on two usable sheets with different dates, and another
\* one twice within one cell; the workbook was loaded.
C8_Witness ==
  /\ EtaLoaded
  /\ \E o1, o2 \in UsableOccurrences :
       /\ OccPO(o1) = OccPO(o2) /\ o1[1] < o2[1]
       /\ CalendarDate(OccEta(o1)) # CalendarDate(OccEta(o2))
       /\ o2 = LastOccurrence(UsableOccurrences, OccPO(o2))
  /\ \E o1, o2 \in UsableOccurrences :
       /\ OccPO(o1) = OccPO(o2) /\ o1[1] = o2[1] /\ o1[2] = o2[2] /\ o1[3] < o2[3]

\* --------------------------------------------------------------------- C9
EtaDone == eta_pc = "done"

ListedMissing(po) == \E j \in 1..Len(missing) : missing[j].PO_num = po

\* C9: a BC PO is listed under 'BC POs missing in Import workbook' if and
\* only if no row of the import workbook yields that PO (rows of the sheets
\* the page reads).
C9_MissingIffNoImportRow ==
  EtaDone =>
    \A k \in 1..Len(bc_df) :
      ListedMissing(bc_df[k].PO_num)
        <=> bc_df[k].PO_num \notin {OccPO(o) : o \in UsableOccurrences}

\* What the page does: a BC PO is listed as missing if and only if no row
\* yields it or the last row that yields it has no valid ETA.
C9_MissingIffNoImportDate ==
  EtaDone =>
    \A k \in 1..Len(bc_df) :
      ListedMissing(bc_df[k].PO_num)
        <=> \/ bc_df[k].PO_num \notin {OccPO(o) : o \in UsableOccurrences}
            \/ ~HasCalendarDate(OccEta(LastOccurrence(UsableOccurrences,
                                                      bc_df[k].PO_num)))

\* -------------------------------------------------------------------- C10
InMismatches(m) == \E j \in 1..Len(mismatches) : mismatches[j] = m

\* The arrival date cell of the BC row a merged row comes from.
BcArrival(m) == bc_file[m.idx].arrival

\* The import date of a merged row's PO, as load_import_df returned it.
ImportDates(m) ==
  {imp_df[k].imp_date : k \in {j \in 1..Len(imp_df) : imp_df[j].PO_num = m.PO_num}}

BothDatesPresent(m) ==
  /\ HasCalendarDate(BcArrival(m))
  /\ \E d \in ImportDates(m) : ~d.nat

CalendarDayDifference(m) ==
  (CHOOSE d \in ImportDates(m) : TRUE).day - BcArrival(m).day

\* C10: a BC row is in mismatches if and only if its BC date and its
\* import date are both present and the two calendar dates differ by more
\* than tolerance_days whole days; with tolerance 0 two dates of the same
\* calendar day are never a mismatch.  Every BC row with a PO is compared.
C10_MismatchBeyondTolerance ==
  EtaDone =>
    /\ \A k \in 1..Len(merged) :
         /\ InMismatches(merged[k])
              <=> /\ BothDatesPresent(merged[k])
                  /\ Abs(CalendarDayDifference(merged[k])) > tol
         /\ (tol = 0 /\ BothDatesPresent(merged[k])
             /\ CalendarDayDifference(merged[k]) = 0) => ~InMismatches(merged[k])
    /\ \A j \in 1..Len(mismatches) : \E k \in 1..Len(merged) : mismatches[j] = merged[k]
    /\ {merged[k].idx : k \in 1..Len(merged)}
         = {i \in 1..Len(bc_file) : extract_six_digit_po_from_bc_no(bc_file[i].no) # <<>>}

\* With a tolerance of one day, a BC row with a time of day was one
\* calendar day off its import date and passed, another was two days off
\* and was reported.
C10_Witness ==
  /\ EtaDone /\ tol = 1
  /\ \E k \in 1..Len(merged) :
       /\ BothDatesPresent(merged[k]) /\ BcArrival(merged[k]).tod # 0
       /\ Abs(CalendarDayDifference(merged[k])) = 1
       /\ ~InMismatches(merged[k])
  /\ \E k \in 1..Len(merged) :
       /\ BothDatesPresent(merged[k])
       /\ Abs(CalendarDayDifference(merged[k])) = 2
       /\ InMismatches(merged[k])

\* -------------------------------------------------------------------- C11
\* The vessel (voyage) is on both sides and differs after spaces are
\* removed and the text is upper-cased.
PresentText(cell) == cell.kind # "nan" /\ RemoveSpaces(cell.text) # <<>>

DiffersNormalized(cell_a, cell_b) ==
  /\ PresentText(cell_a) /\ PresentText(cell_b)
  /\ Upper(RemoveSpaces(cell_a.text)) # Upper(RemoveSpaces(cell_b.text))

VesselDiscrepancy(po) ==
  \/ DiffersNormalized(RowOf(tri_a, po).vessel, RowOf(tri_b, po).vessel)
  \/ DiffersNormalized(RowOf(tri_a, po).voyage, RowOf(tri_b, po).voyage)

\* An entry of some table of the result names the PO with its vessels or
\* voyages.
ResultReportsVessel(po) ==
  \E key \in DOMAIN results :
    \E j \in 1..Len(results[key]) :
      /\ {"A_Vessel", "A_Voyage", "B_Vessel", "B_Voyage"} \cap DOMAIN results[key][j] # {}
      /\ results[key][j].PO = po

\* C11: for every matched PO whose arrival vessel (or voyage) is present
\* on both sides and differs after normalization, the result returned by
\* compare_dataframes reports a vessel/voyage discrepancy for that PO.
C11_VesselDiscrepancyReported ==
  tri_pc = "done" =>
    \A po \in matched_pos : VesselDiscrepancy(po) => ResultReportsVessel(po)

\* What the function does: the discrepancy is collected in the local list
\* vessel_diffs, which is not part of the returned dictionary.
C11_VesselDiffsCollected ==
  tri_pc = "done" =>
    /\ \A po \in matched_pos :
         VesselDiscrepancy(po) <=> \E j \in 1..Len(vessel_diffs) : vessel_diffs[j].PO = po
    /\ DOMAIN results = {"eta_diffs", "unmatched_a", "container_diffs"}

\* -------------------------------------------------------------------- C13
\* The sheets whose name parses as MM.YYYY for the page.
ParseableSheets ==
  {k \in 1..Len(sheet_names_b) : SheetDate(sheet_page, sheet_names_b[k]) # <<>>}

\* (year, month) of one sheet is not before that of another.
NotBefore(d1, d2) == d1[1] > d2[1] \/ (d1[1] = d2[1] /\ d1[2] >= d2[2])

\* C13: if at least one sheet name parses as MM.YYYY, the sheet used is
\* one whose (year, month) is the latest among the parseable names, by the
\* calendar and not as text; if none parses, the last sheet of the
\* workbook is used.
C13_LatestSheetUsed ==
  sh_pc = "done" =>
    IF ParseableSheets # {}
    THEN \E k \in ParseableSheets :
           /\ used_sheet = sheet_names_b[k]
           /\ \A j \in ParseableSheets :
                NotBefore(SheetDate(sheet_page, sheet_names_b[k]),
                          SheetDate(sheet_page, sheet_names_b[j]))
    ELSE used_sheet = sheet_names_b[Len(sheet_names_b)]

\* 12.2024 came after a sheet of 2025 in the workbook and the sheet of 2025
\* was used.
C13_Witness ==
  /\ sh_pc = "done"
  /\ \E j, k \in ParseableSheets :
       /\ j < k
       /\ SheetDate(sheet_page, sheet_names_b[k]) = <<2024, 12>>
       /\ SheetDate(sheet_page, sheet_names_b[j])[1] = 2025
       /\ used_sheet = sheet_names_b[j]

\* No sheet name parsed and the last sheet was used.
C13_WitnessFallback ==
  /\ sh_pc = "done" /\ ParseableSheets = {} /\ Len(sheet_names_b) > 1
  /\ used_sheet = sheet_names_b[Len(sheet_names_b)]

\* ------------------------------------------------ claims: compare_rows
CoreFields == {"ETA", "Container", "Arrival Vessel"}

PagesDone(page) == pg_page = page /\ pg_pc = "done"

\* C14 (as stated): compare_rows of pages/burnard_shipment_check.py, when
\* ETA, Container and Arrival Vessel all differ for a matched PO, returns
\* differences that contain all three fields.
C14_AllThreeShown ==
  (PagesDone("burnard") /\ CoreFields \subseteq pg_differences)
    => CoreFields \subseteq pg_filtered

\* What are_containers_equal of pages/burnard_shipment_check.py answered
\* for the two Container cells of the rows, as the run shows it.
ContainerAnswer ==
  IF pg_pc = "raised" THEN "AttributeError"
  ELSE IF "Container" \in pg_differences THEN "False" ELSE "True"

HasNumber(container) == container.kind = "num"
HasType(container) == container.kind \in {"num", "type"} /\ container.ctype # <<>>
NormalizedType(container) == normalize_container_type(container.ctype)
TypesAgree(type_a, type_b) ==
  type_a = type_b \/ Contains(type_a, type_b) \/ Contains(type_b, type_a)
BoolText(b) == IF b THEN "True" ELSE "False"

\* C17: are_containers_equal of pages/burnard_shipment_check.py follows its
\* three rules for every pair of container values: with a number on both
\* sides the answer is True exactly when the numbers are identical, the
\* types not considered; with a number on exactly one side the answer is
\* False; with no number and a type on both sides the answer is True exactly
\* when the normalized types are equal or one contains the other.
C17_ContainerRules ==
  (pg_page = "burnard" /\ pg_pc # "start") =>
    LET a == pg_row_a.container
        b == pg_row_b.container
    IN /\ (HasNumber(a) /\ HasNumber(b))
            => ContainerAnswer = BoolText(a.number = b.number)
       /\ (HasNumber(a) # HasNumber(b)) => ContainerAnswer = "False"
       /\ (~HasNumber(a) /\ ~HasNumber(b) /\ HasType(a) /\ HasType(b))
            => ContainerAnswer =
                 BoolText(TypesAgree(NormalizedType(a), NormalizedType(b)))

\* Two cells with the same number and different types were compared and no
\* Container difference was recorded.
C17_Witness ==
  /\ PagesDone("burnard")
  /\ HasNumber(pg_row_a.container) /\ HasNumber(pg_row_b.container)
  /\ pg_row_a.container.number = pg_row_b.container.number
  /\ pg_row_a.container.ctype # pg_row_b.container.ctype
  /\ "Container" \notin pg_differences

\* C15: compare_rows of pages/dhl_shipment_check.py returns 'Arrival
\* Voyage' only together with at least one of ETA, Container, Arrival
\* Vessel; a voyage-only difference gives an empty result; and each of ETA,
\* Container, Arrival Vessel is in the result if and only if it differs.
C15_VoyageOnlyWithCore ==
  PagesDone("dhl") =>
    /\ ("Arrival Voyage" \in pg_filtered) => (pg_filtered \cap CoreFields # {})
    /\ (pg_differences = {"Arrival Voyage"}) => (pg_filtered = {})
    /\ \A field \in CoreFields : (field \in pg_filtered) <=> (field \in pg_differences)

\* Only the voyage differed and nothing was returned.
C15_Witness ==
  PagesDone("dhl") /\ pg_differences = {"Arrival Voyage"} /\ pg_filtered = {}

OneCoreDiffers == Cardinality(pg_differences \cap CoreFields) = 1

InputCodes == {unique_port_codes[i] : i \in 1..Len(unique_port_codes)}
CountryIds == {countries[i].id : i \in 1..Len(countries)}

\* The code was in the data of an upsert on 'ports', with this country_id.
SentWith(code, id) ==
  \E k \in 1..Len(upserts) : \E i \in 1..Len(upserts[k]) :
    upserts[k][i] = [port_code |-> code, country_id |-> id]
Sent(code) ==
  \E k \in 1..Len(upserts) : \E i \in 1..Len(upserts[k]) :
    upserts[k][i].port_code = code

\* The countries were fetched and the function has returned.
UploadOver == up_pc \in {"returned", "upsert_failed"}

ReturnedWithoutCountry ==
  IF "ports_without_country" \in DOMAIN up_result
  THEN {up_result.ports_without_country[i] :
          i \in 1..Len(up_result.ports_without_country)}
  ELSE {}

\* The code has two characters or more and its first two, upper-cased, are
\* the code of a fetched country with this id.
QualifiesAsWritten(code, id) ==
  /\ Len(code) >= 2
  /\ \E i \in 1..Len(countries) :
       countries[i].id = id /\ countries[i].code = Upper(SubSeq(code, 1, 2))

\* C18 (as stated): upload_new_ports splits the input codes into two
\* disjoint groups that cover the input: a code is sent to the 'ports'
\* upsert with country_id c if and only if it has at least two characters
\* and its first two letters, upper-cased, equal the code of a fetched
\* country with id c; every other code is returned in
\* ports_without_country and never sent; when no code qualifies no upsert
\* is issued and the result is success with an empty inserted_codes list.
C18_PortsSplit ==
  UploadOver =>
    /\ \A code \in InputCodes : \A id \in CountryIds :
         SentWith(code, id) <=> QualifiesAsWritten(code, id)
    /\ \A code \in InputCodes :
         (~\E id \in CountryIds : QualifiesAsWritten(code, id))
           => (code \in ReturnedWithoutCountry /\ ~Sent(code))
    /\ (\A code \in InputCodes : ~\E id \in CountryIds : QualifiesAsWritten(code, id))
         => /\ upserts = <<>>
            /\ up_result.success
            /\ "inserted_codes" \in DOMAIN up_result
            /\ up_result.inserted_codes = <<>>

\* The code has two characters or more and id is the id of the last
\* fetched country whose upper-cased code is the code's first two
\* characters, upper-cased.
Qualifies(code, id) ==
  /\ Len(code) >= 2
  /\ \E i \in 1..Len(countries) :
       /\ countries[i].id = id
       /\ Upper(countries[i].code) = Upper(SubSeq(code, 1, 2))
       /\ \A j \in (i + 1)..Len(countries) :
            Upper(countries[j].code) # Upper(SubSeq(code, 1, 2))
QualifiesAny(code) == \E id \in CountryIds : Qualifies(code, id)

\* C18 (amended): once the countries are fetched, a code is sent to the one
\* 'ports' upsert with country_id c if and only if it has at least two
\* characters and c is the id of the last fetched country whose
\* upper-cased code equals the code's upper-cased first two characters;
\* every other code is collected in ports_without_country and never sent,
\* and that list is returned whenever the result is a success; when no
\* code qualifies no upsert is issued and the result is success with an
\* empty inserted_codes list.  When the fetch fails nothing is sent and the
\* result is a failure that names the whole input.
C18_PortsSplitByCountryMap ==
  /\ UploadOver =>
       /\ Len(upserts) <= 1
       /\ \A code \in InputCodes : \A id \in CountryIds :
            SentWith(code, id) <=> Qualifies(code, id)
       /\ \A code \in InputCodes :
            IF QualifiesAny(code)
            THEN \A i \in 1..Len(ports_without_country) : ports_without_country[i] # code
            ELSE /\ \E i \in 1..Len(ports_without_country) : ports_without_country[i] = code
                 /\ ~Sent(code)
       /\ up_result.success <=> (up_pc = "returned")
       /\ up_result.success => up_result.ports_without_country = ports_without_country
       /\ ~up_result.success =>
            /\ "ports_without_country" \notin DOMAIN up_result
            /\ up_result.attempted_codes = PortCodesOf(upserts[1])
       /\ (\A code \in InputCodes : ~QualifiesAny(code))
            => /\ upserts = <<>>
               /\ up_result.success
               /\ up_result.inserted_codes = <<>>
  /\ up_pc = "fetch_failed" =>
       /\ upserts = <<>>
       /\ ~up_result.success
       /\ up_result.attempted_codes = unique_port_codes

\* A lower-case code was sent with the id of a country, another code came
\* back in ports_without_country.
C18_Witness ==
  /\ up_pc = "returned" /\ up_result.success
  /\ \E code \in InputCodes : \E id \in CountryIds :
       /\ Upper(code) # code
       /\ SentWith(code, id)
  /\ ReturnedWithoutCountry # {}

\* No code had a country: nothing was sent.
C18_WitnessNothing ==
  /\ up_pc = "returned" /\ unique_port_codes # <<>> /\ countries # <<>>
  /\ upserts = <<>> /\ up_result.inserted_codes = <<>>
  /\ Len(up_result.ports_without_country) = Len(unique_port_codes)

====
